---- MODULE Spec2Model ----
(***************************************************************************)
(* Model of the extraction and canonicalization core of the Guild Bank bot *)
(*   bot/services/ocr_service.py : scan_items, detect_quality_hsv          *)
(*   bot/utils/parsing.py        : parse_quality, parse_user_lines,        *)
(*                                 parse_audit_lines                       *)
(*   bot/utils/formatting.py     : format_preview, QUALITY_SHORTCUTS,      *)
(*                                 chunk_message_blocks                    *)
(*   bot/utils/permissions.py    : is_authorized_member                    *)
(*   bot/cogs/ocr_listener.py    : OCRListener.on_message                  *)
(*   bot/cogs/audit.py           : the audit command                       *)
(*   bot/ui/views.py             : OCRReviewButton, OCRReviewModal,        *)
(*                                 AuditChunkView                          *)
(*   bot/ui/modals.py            : CraftProcessModal, AuditEditModal       *)
(*   bot/services/sheets_service.py : apply_donation, craft_or_process,    *)
(*                                 apply_audit_for_banker                  *)
(* Text is a sequence of characters; a character is a one-element string.  *)
(***************************************************************************)
EXTENDS Integers, Sequences, FiniteSets, TLC

VARIABLES
    data,        \* scan_items: data["text"], the OCR word stream
    hue,         \* detect_quality_hsv: <<median hue>> of a crop in half degrees, <<>> when its mask is empty
    i,           \* scan_items: outer scan index (0-based, as in the code)
    j,           \* scan_items: inner scan index
    item_words,  \* scan_items: accumulated name words
    amount,      \* scan_items: quantity of the current candidate
    results,     \* scan_items: records emitted so far
    owner,       \* history: per record of results, the index i of its marker
    opened,      \* history: the indexes at which the outer loop found a marker
    used,        \* history: per marker of opened, the indexes of the words taken into its name
    spc,         \* scan_items: position in the function
    image,       \* scan_items: <<image.width, image.height>>
    geom,        \* scan_items: per word, <<data["left"], data["top"], data["width"], data["height"]>>
    boxes,       \* scan_items: the boxes of the accumulated name words
    crop,        \* scan_items: the box handed to image.crop for the current record, <<>> when none
    records,     \* record list handed to format_preview
    lines,       \* lines handed to parse_user_lines / parse_audit_lines
    parsedUser,  \* result of parse_user_lines(lines)
    parsedAudit, \* result of parse_audit_lines(lines)
    qtoken,      \* token handed to parse_quality
    qout,        \* result of parse_quality(qtoken)
    ppc,         \* position of the text path
    region,      \* detect_quality_hsv: the pixels of the region, each <<hue, saturation, value>>
    hue_table,   \* detect_quality_hsv: the module-level table QUALITY_HUE_RANGES
    detected,    \* result of detect_quality_hsv(region)
    cpc,         \* position of the classifier call
    msg,            \* on_message: the message
    att,            \* on_message: index of the attachment the loop is at
    hpc,            \* on_message: position in the handler
    detected_items, \* on_message: detected_items
    passes,         \* history: the calls of the OCR engine, <<attachment, pass>>
    tried,          \* history: the attachments read and handed to Image.open
    sent,           \* the messages sent to the channel, <<attachment, text>>
    views,          \* the OCRReviewButton views created
    commands,       \* history: the commands process_commands invoked
    donation_log,   \* the donations booked by apply_donation
    raised,         \* the exception that left on_message, "" when none
    blocks,         \* chunk_message_blocks: the blocks handed in
    max_chars,      \* chunk_message_blocks: max_chars
    chunks,         \* result of chunk_message_blocks(blocks, max_chars)
    ws_b,           \* worksheet Banker Inventory: rows <<Item, Quality, Banker, Amount>>
    ws_g,           \* worksheet Guild Bank Inventory: rows <<Item, Quality, Amount>>
    ws_d,           \* worksheet Donations: rows <<Donator, Item, Quality, Amount>>
    ws_a,           \* worksheet Artisan: rows <<Banker, materials, outputs>>
    ws_audit,       \* worksheet Audit Log: rows <<Banker, old amounts, audited amounts>>
    snapshot,       \* history: the worksheets <<ws_b, ws_g, ws_a>> as the last call found them
    invoked,        \* history: the last call of the service and its arguments
    audit_views,    \* the AuditChunkView views of the last audit command
    lpc             \* position of the chunking call

scanVars == <<data, hue, i, j, item_words, amount, results, owner, opened, used, spc,
              image, geom, boxes, crop>>
textVars == <<records, lines, parsedUser, parsedAudit, qtoken, qout, ppc>>
classVars == <<region, hue_table, detected, cpc>>
pipeVars == <<msg, att, hpc, detected_items, passes, tried, sent, views, commands,
              donation_log, raised>>
ledgerVars == <<blocks, max_chars, chunks, ws_b, ws_g, ws_d, ws_a, ws_audit,
                snapshot, invoked, audit_views, lpc>>
vars == <<data, hue, i, j, item_words, amount, results, owner, opened, used, spc,
          image, geom, boxes, crop,
          records, lines, parsedUser, parsedAudit, qtoken, qout, ppc,
          region, hue_table, detected, cpc,
          msg, att, hpc, detected_items, passes, tried, sent, views, commands,
          donation_log, raised,
          blocks, max_chars, chunks, ws_b, ws_g, ws_d, ws_a, ws_audit,
          snapshot, invoked, audit_views, lpc>>

----------------------------------------------------------------------------
(* Characters and the str methods the code uses *)

Lowers == <<"a","b","c","d","e","f","g","h","i","j","k","l","m",
            "n","o","p","q","r","s","t","u","v","w","x","y","z">>
Uppers == <<"A","B","C","D","E","F","G","H","I","J","K","L","M",
            "N","O","P","Q","R","S","T","U","V","W","X","Y","Z">>
LowerSet == {Lowers[k] : k \in DOMAIN Lowers}
UpperSet == {Uppers[k] : k \in DOMAIN Uppers}
DigitSeq == <<"0","1","2","3","4","5","6","7","8","9">>
DigitSet == {DigitSeq[k] : k \in DOMAIN DigitSeq}
SpaceSet == {" ", "\n", "\t"}

\* "dotless_i" is the letter U+0131, a lower-case letter whose upper case is I
IsCased(c) == c \in LowerSet \/ c \in UpperSet \/ c = "dotless_i"
\* \w of the re module: letters, digits, underscore
IsWordChar(c) == IsCased(c) \/ c \in DigitSet \/ c = "_"

LowerC(c) == IF c \in UpperSet
             THEN Lowers[CHOOSE k \in DOMAIN Uppers : Uppers[k] = c]
             ELSE c
UpperC(c) == IF c \in LowerSet
             THEN Uppers[CHOOSE k \in DOMAIN Lowers : Lowers[k] = c]
             ELSE IF c = "dotless_i" THEN "I"
             ELSE c

\* str.lower()
Lower(s) == [k \in DOMAIN s |-> LowerC(s[k])]

\* str.title(): a cased character is upper-cased when the character before
\* it is not cased, lower-cased otherwise
Title(s) == [k \in DOMAIN s |->
               IF k > 1 /\ IsCased(s[k-1]) THEN LowerC(s[k]) ELSE UpperC(s[k])]

\* str.isdigit()
IsDigits(s) == Len(s) > 0 /\ \A k \in DOMAIN s : s[k] \in DigitSet

DigitVal(c) == (CHOOSE k \in DOMAIN DigitSeq : DigitSeq[k] = c) - 1

\* int(s) for a string of decimal digits
RECURSIVE ToInt(_)
ToInt(s) == IF Len(s) = 0 THEN 0
            ELSE 10 * ToInt(SubSeq(s, 1, Len(s) - 1)) + DigitVal(s[Len(s)])

\* str(n) for n >= 0
RECURSIVE ToStr(_)
ToStr(n) == IF n < 10 THEN <<DigitSeq[n + 1]>>
            ELSE ToStr(n \div 10) \o <<DigitSeq[(n % 10) + 1]>>

\* s.lstrip(chars) / s.rstrip(chars) / s.strip(chars) for a set of characters
RECURSIVE LStripSet(_, _)
LStripSet(s, cs) == IF Len(s) > 0 /\ s[1] \in cs THEN LStripSet(Tail(s), cs) ELSE s
RECURSIVE RStripSet(_, _)
RStripSet(s, cs) == IF Len(s) > 0 /\ s[Len(s)] \in cs
                    THEN RStripSet(SubSeq(s, 1, Len(s) - 1), cs) ELSE s
StripSet(s, cs) == RStripSet(LStripSet(s, cs), cs)

\* str.strip()
Strip(s) == StripSet(s, SpaceSet)

\* re.split on a set of single characters (every separator splits)
RECURSIVE SplitOn(_, _)
SplitOn(s, cs) ==
    IF \A k \in DOMAIN s : s[k] \notin cs THEN <<s>>
    ELSE LET p == CHOOSE k \in DOMAIN s :
                      s[k] \in cs /\ \A m \in 1..(k-1) : s[m] \notin cs
         IN  <<SubSeq(s, 1, p - 1)>> \o SplitOn(SubSeq(s, p + 1, Len(s)), cs)

\* str.split(): split on runs of whitespace, no empty strings
SplitWs(s) == SelectSeq(SplitOn(s, SpaceSet), LAMBDA t : Len(t) > 0)

\* " ".join(words)
RECURSIVE JoinSp(_)
JoinSp(ws) == IF Len(ws) = 0 THEN <<>>
              ELSE IF Len(ws) = 1 THEN ws[1]
              ELSE ws[1] \o <<" ">> \o JoinSp(Tail(ws))

----------------------------------------------------------------------------
(* Words used by the code and by the sample inputs *)

wAcquired == <<"a","c","q","u","i","r","e","d">>
wRemoved == <<"r","e","m","o","v","e","d">>
wCommon == <<"c","o","m","m","o","n">>
wUncommon == <<"u","n","c","o","m","m","o","n">>
wRare == <<"r","a","r","e">>
wHeroic == <<"h","e","r","o","i","c">>
wEpic == <<"e","p","i","c">>
wLegendary == <<"l","e","g","e","n","d","a","r","y">>
wOak == <<"o","a","k">>
wWood == <<"w","o","o","d">>
wIron == <<"i","r","o","n">>
wOre == <<"o","r","e">>
wCopper == <<"c","o","p","p","e","r">>

----------------------------------------------------------------------------
(* bot/services/ocr_service.py *)

\* QUALITY_HUE_RANGES in its listed order; <<>> stands for None
QUALITY_HUE_RANGES ==
    << <<Title(wCommon), <<>> >>,
       <<Title(wUncommon), <<95, 140>> >>,
       <<Title(wRare), <<190, 240>> >>,
       <<Title(wHeroic), <<40, 70>> >>,
       <<Title(wEpic), <<260, 310>> >>,
       <<Title(wLegendary), <<20, 50>> >> >>

\* hues are counted in half degrees, so that the median of an even number of
\* whole-degree hues is a whole number: d degrees
Deg(d) == 2 * d

HueInOpenRange(hrange, hue_mode) ==
    LET lo == Deg(hrange[1])
        hi == Deg(hrange[2])
    IN  IF lo <= hi THEN lo < hue_mode /\ hue_mode < hi
        ELSE hue_mode > lo \/ hue_mode < hi

\* one range test of detect_quality_hsv, hue_mode in half degrees
HueInRange(hrange, hue_mode) ==
    LET lo == Deg(hrange[1])
        hi == Deg(hrange[2])
    IN  IF lo <= hi THEN lo <= hue_mode /\ hue_mode <= hi
        ELSE hue_mode >= lo \/ hue_mode <= hi

LastMatch(table, h) ==
    IF h = <<>> THEN Title(wCommon)
    ELSE LET hits == {k \in DOMAIN table :
                        table[k][2] # <<>> /\ HueInRange(table[k][2], h[1])}
         IN  IF hits = {} THEN Title(wCommon)
             ELSE table[CHOOSE k \in hits : \A m \in hits : k >= m][1]

\* the loop over the table of detect_quality_hsv: the tier of the first entry,
\* in listed order, whose range holds the median hue; h is <<>> when no pixel
\* passes the mask and <<median hue>> otherwise
FirstMatch(table, h) ==
    IF h = <<>> THEN Title(wCommon)
    ELSE LET hits == {k \in DOMAIN table :
                        table[k][2] # <<>> /\ HueInRange(table[k][2], h[1])}
         IN  IF hits = {} THEN Title(wCommon)
             ELSE table[CHOOSE k \in hits : \A m \in hits : k <= m][1]

\* detect_quality_hsv from the masked hues on: it reads the table of the module
detect_quality_hsv(h) == FirstMatch(hue_table, h)

\* sat_thresh = 0.3 and val_thresh = 0.2, in hundredths
sat_thresh == 30
val_thresh == 20

AllPixels(px) == TRUE
\* mask = (s > sat_thresh) & (v > val_thresh), for one pixel
PassesMask(px) == px[2] > sat_thresh /\ px[3] > val_thresh

\* h[mask]: the hues, in degrees, of the pixels that pass the mask
MaskedHues(reg) ==
    LET kept == SelectSeq(reg, PassesMask)
    IN  [k \in DOMAIN kept |-> kept[k][1]]

\* the k-th smallest element of a sequence of numbers
KthSmallest(hs, k) ==
    CHOOSE x \in {hs[m] : m \in DOMAIN hs} :
        /\ Cardinality({m \in DOMAIN hs : hs[m] < x}) < k
        /\ Cardinality({m \in DOMAIN hs : hs[m] <= x}) >= k

\* float(np.median(hs)) for hues in degrees, in half degrees: the middle
\* element, or the mean of the two middle elements
Median(hs) ==
    LET n == Len(hs)
    IN  IF n % 2 = 1 THEN Deg(KthSmallest(hs, (n + 1) \div 2))
        ELSE KthSmallest(hs, n \div 2) + KthSmallest(hs, n \div 2 + 1)

\* the masked median hue of a region: <<>> when not mask.any()
RegionHue(reg) ==
    IF MaskedHues(reg) = <<>> THEN <<>> ELSE <<Median(MaskedHues(reg))>>

ClassifyConsumesTable ==
    /\ cpc = "call"
    /\ detected' = detect_quality_hsv(RegionHue(region))
    /\ hue_table' = SelectSeq(hue_table, LAMBDA e : e[1] # detected')
    /\ cpc' = "done"
    /\ UNCHANGED region
    /\ UNCHANGED <<scanVars, textVars, pipeVars, ledgerVars>>

\* quality = detect_quality_hsv(region): the call and its return value
Classify ==
    /\ cpc = "call"
    /\ detected' = detect_quality_hsv(RegionHue(region))
    /\ cpc' = "done"
    /\ UNCHANGED <<region, hue_table>>
    /\ UNCHANGED <<scanVars, textVars, pipeVars, ledgerVars>>

\* the boundary test of both loops: text.strip().lower().rstrip(":") in
\* ("acquired", "removed")
IsBoundary(text) ==
    RStripSet(Lower(Strip(text)), {":"}) \in {wAcquired, wRemoved}

\* w.startswith("x") and w[1:].isdigit()
IsQuantityMarker(w) == Len(w) > 0 /\ w[1] = "x" /\ IsDigits(Tail(w))

EndsOnlyAtBoundary(w) == IsBoundary(w)
\* the break test of the inner loop: not w or w is a boundary marker
EndsWithoutConsuming(w) == w = <<>> \/ IsBoundary(w)

\* characters kept at both ends by re.sub(r"^[^\w\d\(\)]+|[^\w\d\(\)]+$", "", raw_name)
IsNameEdge(c) == IsWordChar(c) \/ c \in {"(", ")"}
RECURSIVE LTrimName(_)
LTrimName(s) == IF Len(s) > 0 /\ ~IsNameEdge(s[1]) THEN LTrimName(Tail(s)) ELSE s
RECURSIVE RTrimName(_)
RTrimName(s) == IF Len(s) > 0 /\ ~IsNameEdge(s[Len(s)])
                THEN RTrimName(SubSeq(s, 1, Len(s) - 1)) ELSE s

\* item_name of scan_items, from item_words
NormalizeName(words) ==
    StripSet(RTrimName(LTrimName(Strip(JoinSp(words)))),
             {"[", "]", "(", ")", "{", "}"})

num_words == Len(data)

\* while i < num_words: a word that is no boundary marker is skipped, a
\* boundary marker opens a candidate
ScanOuter ==
    /\ spc = "outer"
    /\ i < num_words
    /\ IF ~IsBoundary(data[i + 1])
       THEN /\ i' = i + 1
            /\ UNCHANGED <<j, item_words, amount, boxes, crop, opened, used, spc>>
       ELSE /\ j' = i + 1
            /\ item_words' = <<>>
            /\ amount' = 1
            /\ boxes' = <<>>
            /\ crop' = <<>>
            /\ opened' = Append(opened, i)
            /\ used' = Append(used, <<>>)
            /\ spc' = "inner"
            /\ UNCHANGED i
    /\ UNCHANGED <<data, hue, image, geom, results, owner>>
    /\ UNCHANGED <<textVars, classVars, pipeVars, ledgerVars>>

\* the outer loop ends: return results
ScanReturn ==
    /\ spc = "outer"
    /\ i >= num_words
    /\ spc' = "done"
    /\ UNCHANGED <<data, hue, i, j, item_words, amount, results, owner, opened, used>>
    /\ UNCHANGED <<image, geom, boxes, crop>>
    /\ UNCHANGED <<textVars, classVars, pipeVars, ledgerVars>>

\* one iteration (or the exit) of the inner loop
ScanInner ==
    /\ spc = "inner"
    /\ IF j < num_words
       THEN LET w == Strip(data[j + 1])
            IN  IF EndsWithoutConsuming(w)
                THEN /\ spc' = "post"
                     /\ UNCHANGED <<j, item_words, amount, boxes, used>>
                ELSE IF IsQuantityMarker(w)
                THEN /\ amount' = ToInt(Tail(w))
                     /\ j' = j + 1
                     /\ spc' = "post"
                     /\ UNCHANGED <<item_words, boxes, used>>
                ELSE /\ item_words' = Append(item_words, w)
                     /\ boxes' = Append(boxes, geom[j + 1])
                     /\ used' = [used EXCEPT ![Len(used)] = Append(@, j)]
                     /\ j' = j + 1
                     /\ UNCHANGED <<amount, spc>>
       ELSE /\ spc' = "post"
            /\ UNCHANGED <<j, item_words, amount, boxes, used>>
    /\ UNCHANGED <<data, hue, i, results, owner, opened, image, geom, crop>>
    /\ UNCHANGED <<textVars, classVars, pipeVars, ledgerVars>>

ItemTupleRaw(words, q, amt) == <<NormalizeName(words), q, amt>>
\* the tuple appended to results: (item_name.title(), quality, amount)
ItemTuple(words, q, amt) == <<Title(NormalizeName(words)), q, amt>>

\* a box <<left, top, width, height>>: its right and bottom edge
Right(b) == b[1] + b[3]
Bottom(b) == b[2] + b[4]

Min(S) == CHOOSE x \in S : \A y \in S : x <= y
Max(S) == CHOOSE x \in S : \A y \in S : x >= y
Greater(a, b) == IF a >= b THEN a ELSE b
Smaller(a, b) == IF a <= b THEN a ELSE b

\* the boxes the crop is taken over: the whole image when there is none
BoxesOrImage(bxs, img) ==
    IF bxs = <<>> THEN << <<0, 0, img[1], img[2]>> >> ELSE bxs

CropBoxUnclamped(bxs, img) ==
    LET bs == BoxesOrImage(bxs, img)
    IN  << Min({bs[k][1] : k \in DOMAIN bs}) - 4,
           Min({bs[k][2] : k \in DOMAIN bs}) - 2,
           Max({Right(bs[k]) : k \in DOMAIN bs}) + 4,
           Max({Bottom(bs[k]) : k \in DOMAIN bs}) + 2 >>

\* the tuple handed to image.crop
CropBox(bxs, img) ==
    LET bs == BoxesOrImage(bxs, img)
    IN  << Greater(Min({bs[k][1] : k \in DOMAIN bs}) - 4, 0),
           Greater(Min({bs[k][2] : k \in DOMAIN bs}) - 2, 0),
           Smaller(Max({Right(bs[k]) : k \in DOMAIN bs}) + 4, img[1]),
           Smaller(Max({Bottom(bs[k]) : k \in DOMAIN bs}) + 2, img[2]) >>

ResumeAfter(jj) == jj + 1
ResumeBefore(jj) == jj - 1
\* i = j: the outer loop resumes at the word the inner loop stopped at
ResumeAt(jj) == jj

\* after the inner loop: discard an empty candidate, else append the record
ScanPost ==
    /\ spc = "post"
    /\ IF item_words = <<>> \/ NormalizeName(item_words) = <<>>
       THEN UNCHANGED <<results, owner, crop>>
       ELSE /\ crop' = CropBox(boxes, image)
            /\ results' = Append(results,
                  ItemTuple(item_words, detect_quality_hsv(hue), amount))
            /\ owner' = Append(owner, i)
    /\ i' = ResumeAt(j)
    /\ spc' = "outer"
    /\ UNCHANGED <<data, hue, j, item_words, amount, opened, used, image, geom, boxes>>
    /\ UNCHANGED <<textVars, classVars, pipeVars, ledgerVars>>

----------------------------------------------------------------------------
(* bot/utils/formatting.py *)

\* QUALITY_SHORTCUTS, as a sequence of <<letter, tier>>
QUALITY_SHORTCUTS ==
    << <<"c", Title(wCommon)>>, <<"u", Title(wUncommon)>>, <<"r", Title(wRare)>>,
       <<"h", Title(wHeroic)>>, <<"e", Title(wEpic)>>, <<"l", Title(wLegendary)>> >>

ShortcutKeys == {QUALITY_SHORTCUTS[k][1] : k \in DOMAIN QUALITY_SHORTCUTS}
ShortcutOf(c) ==
    QUALITY_SHORTCUTS[CHOOSE k \in DOMAIN QUALITY_SHORTCUTS : QUALITY_SHORTCUTS[k][1] = c][2]

\* QUALITY_EMOJIS, as a sequence of <<tier, emoji>>; an emoji is one character
QUALITY_EMOJIS ==
    << <<Title(wCommon), "white_circle">>, <<Title(wUncommon), "green_circle">>,
       <<Title(wRare), "blue_circle">>, <<Title(wHeroic), "yellow_circle">>,
       <<Title(wEpic), "purple_circle">>, <<Title(wLegendary), "orange_circle">> >>

\* QUALITY_EMOJIS.get(q, "bullet")
EmojiOf(q) ==
    IF \E k \in DOMAIN QUALITY_EMOJIS : QUALITY_EMOJIS[k][1] = q
    THEN QUALITY_EMOJIS[CHOOSE k \in DOMAIN QUALITY_EMOJIS : QUALITY_EMOJIS[k][1] = q][2]
    ELSE "bullet"

\* one line of format_preview: f"{emoji} {amount} x {item} ({q})", x the
\* multiplication sign
PreviewLine(rec) ==
    LET q == IF rec[2] = <<>> THEN Title(wCommon) ELSE rec[2]
    IN  <<EmojiOf(q), " ">> \o ToStr(rec[3]) \o <<" ", "times", " ">> \o rec[1]
          \o <<" ", "(">> \o q \o <<")">>

\* format_preview: the lines joined by "\n"
RECURSIVE format_preview(_)
format_preview(items) ==
    IF Len(items) = 0 THEN <<>>
    ELSE IF Len(items) = 1 THEN PreviewLine(items[1])
    ELSE PreviewLine(items[1]) \o <<"\n">> \o format_preview(Tail(items))

\* str.splitlines() on text whose only line break is "\n"
SplitLines(s) == IF s = <<>> THEN <<>> ELSE SplitOn(s, {"\n"})

----------------------------------------------------------------------------
(* bot/utils/parsing.py *)

FullNames == {wCommon, wUncommon, wRare, wHeroic, wEpic, wLegendary}

\* parse_quality
parse_quality(token) ==
    LET q == Lower(Strip(token))
    IN  IF q = <<>> THEN Title(wCommon)
        ELSE IF q[1] \in ShortcutKeys THEN ShortcutOf(q[1])
        ELSE Title(q)

\* re.sub(r"^[^\w\d]+", "", s)
RECURSIVE LStripNonWord(_)
LStripNonWord(s) ==
    IF Len(s) > 0 /\ ~IsWordChar(s[1]) THEN LStripNonWord(Tail(s)) ELSE s

\* re.sub(r"[^\w]", "", s)
OnlyWordChars(s) == SelectSeq(s, IsWordChar)

\* index of the first character at or after p that is no whitespace
\* (Len(s) + 1 when there is none)
RECURSIVE SkipWs(_, _)
SkipWs(s, p) == IF p <= Len(s) /\ s[p] \in SpaceSet THEN SkipWs(s, p + 1) ELSE p

\* index after the leading run of digits
RECURSIVE SkipDigits(_, _)
SkipDigits(s, p) == IF p <= Len(s) /\ s[p] \in DigitSet THEN SkipDigits(s, p + 1) ELSE p

\* the tail \s*\((.+?)\)$ of the lenient pattern matches from index p on:
\* whitespace, "(", at least one character, ")" as the last character
LenientTail(s, p) ==
    LET q == SkipWs(s, p)
    IN  q <= Len(s) - 2 /\ s[q] = "(" /\ s[Len(s)] = ")"

\* the text a pattern letter is compared with under re.IGNORECASE: the lower
\* case, where the letters i, I and U+0131 are one letter
FoldCase(s) == [k \in DOMAIN s |-> IF s[k] = "dotless_i" THEN "i" ELSE LowerC(s[k])]

\* the tail \s*\((Common|Uncommon|Rare|Heroic|Epic|Legendary)\)$ of the audit
\* pattern (re.IGNORECASE) matches from index p on
AuditTail(s, p) ==
    LET q == SkipWs(s, p)
    IN  /\ q <= Len(s) - 2 /\ s[q] = "(" /\ s[Len(s)] = ")"
        /\ FoldCase(SubSeq(s, q + 1, Len(s) - 1)) \in FullNames

\* re.match(r"^(\d+)\s*[x*]\s*(.+?)\s*\(...\)$", s, re.IGNORECASE), * the
\* multiplication sign, with the tail of the audit pattern when audit is TRUE: <<>> when there is no match, else <<group 1, group 2,
\* group 3>>.  \d+ and both \s* are greedy, (.+?) is lazy: the name starts
\* after the whitespace that follows x and is the shortest one the tail
\* matches after; when no such name exists the last whitespace character
\* after x is given back to the name.
MatchParen(s, audit) ==
    LET TailOk(t, p) == IF audit THEN AuditTail(t, p) ELSE LenientTail(t, p)
        d == SkipDigits(s, 1)
        x == SkipWs(s, d)
        a == SkipWs(s, x + 1)
        ends == {e \in a..Len(s) : TailOk(s, e + 1)}
        grp(from, e) == LET q == SkipWs(s, e + 1)
                        IN  <<SubSeq(s, 1, d - 1), SubSeq(s, from, e),
                              SubSeq(s, q + 1, Len(s) - 1)>>
    IN  IF d = 1 \/ x > Len(s) \/ s[x] \notin {"x", "X", "times"} THEN <<>>
        ELSE IF ends # {} THEN grp(a, CHOOSE e \in ends : \A m \in ends : e <= m)
        ELSE IF a > x + 1 /\ TailOk(s, a) THEN grp(a - 1, a - 1)
        ELSE <<>>

UserRestKeepsAmount(tokens) == tokens
\* rest = tokens[1:] if tokens[0].isdigit() else tokens
UserRest(tokens) == IF IsDigits(tokens[1]) THEN Tail(tokens) ELSE tokens

\* the fallback of parse_user_lines for one segment: token splitting
UserFallback(segment) ==
    LET tokens == SplitWs(segment)
        hasAmt == Len(tokens) > 0 /\ IsDigits(tokens[1])
        amt == IF hasAmt THEN ToInt(tokens[1]) ELSE 1
        rest == IF tokens = <<>> THEN <<>> ELSE UserRest(tokens)
        quality_candidate == Lower(rest[Len(rest)])
        isQual == /\ quality_candidate # <<>>
                  /\ \/ quality_candidate[1] \in ShortcutKeys
                     \/ quality_candidate \in FullNames
        quality == IF isQual THEN parse_quality(quality_candidate) ELSE Title(wCommon)
        item_tokens == IF isQual THEN SubSeq(rest, 1, Len(rest) - 1) ELSE rest
        item == Title(Strip(JoinSp(item_tokens)))
    IN  IF tokens = <<>> \/ rest = <<>> \/ item = <<>> THEN <<>>
        ELSE << <<item, quality, amt>> >>

UserSegmentNoTitle(part) ==
    LET stripped == Strip(part)
        segment == LStripNonWord(stripped)
        m == MatchParen(segment, FALSE)
    IN  IF stripped = <<>> THEN <<>>
        ELSE IF m # <<>>
        THEN << <<Strip(m[2]), parse_quality(OnlyWordChars(m[3])), ToInt(m[1])>> >>
        ELSE UserFallback(segment)

\* the body of the inner loop of parse_user_lines for one part of a line:
\* the records it appends
UserSegment(part) ==
    LET stripped == Strip(part)
        segment == LStripNonWord(stripped)
        m == MatchParen(segment, FALSE)
    IN  IF stripped = <<>> THEN <<>>
        ELSE IF m # <<>>
        THEN << <<Title(Strip(m[2])), parse_quality(OnlyWordChars(m[3])), ToInt(m[1])>> >>
        ELSE UserFallback(segment)

RECURSIVE UserPartsUntilDropped(_)
UserPartsUntilDropped(parts) ==
    IF Len(parts) = 0 \/ UserSegment(parts[1]) = <<>> THEN <<>>
    ELSE UserSegment(parts[1]) \o UserPartsUntilDropped(Tail(parts))

\* for part in parts: the records the parts of one line append, in order
RECURSIVE UserParts(_)
UserParts(parts) ==
    IF Len(parts) = 0 THEN <<>> ELSE UserSegment(parts[1]) \o UserParts(Tail(parts))

\* parse_user_lines
RECURSIVE parse_user_lines(_)
parse_user_lines(ls) ==
    IF Len(ls) = 0 THEN <<>>
    ELSE UserParts(SplitOn(Strip(ls[1]), {",", "+", ";"})) \o parse_user_lines(Tail(ls))

AuditLineDefaultsAmount(raw) ==
    LET line == LStripNonWord(Strip(raw))
        strict == MatchParen(line, TRUE)
        tokens == SplitWs(line)
        amt_token == RStripSet(tokens[1], {"x", "times"})
        hasAmt == IsDigits(amt_token)
        last == Lower(tokens[Len(tokens)])
        isQual == last \in {<<c>> : c \in ShortcutKeys} \/ last \in FullNames
        quality == IF isQual THEN parse_quality(last) ELSE Title(wCommon)
        from == IF hasAmt THEN 2 ELSE 1
        item_tokens == SubSeq(tokens, from, IF isQual THEN Len(tokens) - 1 ELSE Len(tokens))
        item == Title(Strip(JoinSp(item_tokens)))
    IN  IF line = <<>> THEN <<>>
        ELSE IF strict # <<>>
        THEN << <<Title(Strip(strict[2])), Title(strict[3]), ToInt(strict[1])>> >>
        ELSE IF Len(tokens) < 2 \/ item = <<>> THEN <<>>
        ELSE << <<item, quality, IF hasAmt THEN ToInt(amt_token) ELSE 1>> >>

\* the body of the loop of parse_audit_lines for one line: the records it appends
AuditLine(raw) ==
    LET line == LStripNonWord(Strip(raw))
        strict == MatchParen(line, TRUE)
        tokens == SplitWs(line)
        amt_token == RStripSet(tokens[1], {"x", "times"})
        last == Lower(tokens[Len(tokens)])
        isQual == last \in {<<c>> : c \in ShortcutKeys} \/ last \in FullNames
        quality == IF isQual THEN parse_quality(last) ELSE Title(wCommon)
        item_tokens == IF isQual THEN SubSeq(tokens, 2, Len(tokens) - 1) ELSE Tail(tokens)
        item == Title(Strip(JoinSp(item_tokens)))
    IN  IF line = <<>> THEN <<>>
        ELSE IF strict # <<>>
        THEN << <<Title(Strip(strict[2])), Title(strict[3]), ToInt(strict[1])>> >>
        ELSE IF Len(tokens) < 2 \/ ~IsDigits(amt_token) \/ item = <<>> THEN <<>>
        ELSE << <<item, quality, ToInt(amt_token)>> >>

\* parse_audit_lines
RECURSIVE parse_audit_lines(_)
parse_audit_lines(ls) ==
    IF Len(ls) = 0 THEN <<>>
    ELSE AuditLine(ls[1]) \o parse_audit_lines(Tail(ls))

----------------------------------------------------------------------------
(* The text path: the callers of the parsers (bot/ui/modals.py, bot/ui/views.py) *)

\* OCRReviewModal.on_submit: self.item_lines.value.strip().splitlines()
TextToLines(text) == SplitLines(Strip(text))

\* the preview text becomes the lines to parse
Render ==
    /\ ppc = "render"
    /\ lines' = TextToLines(format_preview(records))
    /\ ppc' = "ready"
    /\ UNCHANGED <<records, parsedUser, parsedAudit, qtoken, qout>>
    /\ UNCHANGED <<scanVars, classVars, pipeVars, ledgerVars>>

\* parsed = parse_user_lines(lines)
ParseUser ==
    /\ ppc = "ready"
    /\ parsedUser' = parse_user_lines(lines)
    /\ ppc' = "user"
    /\ UNCHANGED <<records, lines, parsedAudit, qtoken, qout>>
    /\ UNCHANGED <<scanVars, classVars, pipeVars, ledgerVars>>

\* parsed = parse_audit_lines(lines)
ParseAudit ==
    /\ ppc = "user"
    /\ parsedAudit' = parse_audit_lines(lines)
    /\ ppc' = "audit"
    /\ UNCHANGED <<records, lines, parsedUser, qtoken, qout>>
    /\ UNCHANGED <<scanVars, classVars, pipeVars, ledgerVars>>

\* the tokens parse_quality is tried on: the empty token and every
\* whitespace-separated token of the lines
QualityTokens ==
    {<<>>} \cup UNION {{SplitWs(lines[k])[m] : m \in DOMAIN SplitWs(lines[k])} : k \in DOMAIN lines}

\* quality = parse_quality(token)
ParseQuality ==
    /\ ppc = "audit"
    /\ \E t \in QualityTokens :
         /\ qtoken' = t
         /\ qout' = parse_quality(t)
    /\ ppc' = "quality"
    /\ UNCHANGED <<records, lines, parsedUser, parsedAudit>>
    /\ UNCHANGED <<scanVars, classVars, pipeVars, ledgerVars>>

----------------------------------------------------------------------------
(* bot/utils/permissions.py, bot/cogs/ocr_listener.py, bot/ui/views.py *)

\* the words of one line of text, left to right, in an image that holds them
LineImage == <<60, 10>>
LineGeom(d) == [k \in DOMAIN d |-> <<6 * (k - 1), 1, 5, 8>>]

\* s.startswith(pre) / s.endswith(suf)
StartsWith(s, pre) == Len(s) >= Len(pre) /\ SubSeq(s, 1, Len(pre)) = pre
EndsWith(s, suf) ==
    Len(s) >= Len(suf) /\ SubSeq(s, Len(s) - Len(suf) + 1, Len(s)) = suf

\* is_authorized_member: the server owner, an administrator or a member with
\* the Banker role
is_authorized_member(member) == member.owner \/ member.administrator \/ member.banker

\* the test of the permission gate: is_authorized_member(message.author) or
\* message.content.lower().startswith(("!d", "!donations"))
PassesGate(m) ==
    \/ is_authorized_member(m.author)
    \/ StartsWith(Lower(m.content), <<"!", "d">>)
    \/ StartsWith(Lower(m.content), <<"!">> \o <<"d","o","n","a","t","i","o","n","s">>)

\* the command process_commands invokes: the word after the prefix "!" when
\* it is d or donations, <<>> otherwise
InvokedCommand(content) ==
    LET word == IF StartsWith(content, <<"!">>)
                THEN SplitOn(Tail(content), SpaceSet)[1] ELSE <<>>
    IN  IF word \in {<<"d">>, <<"d","o","n","a","t","i","o","n","s">>} THEN word ELSE <<>>

\* attachment.filename.lower().endswith((".png", ".jpg", ".jpeg"))
IsImageName(filename) ==
    \/ EndsWith(Lower(filename), <<".", "p", "n", "g">>)
    \/ EndsWith(Lower(filename), <<".", "j", "p", "g">>)
    \/ EndsWith(Lower(filename), <<".", "j", "p", "e", "g">>)

attachment == msg.attachments[att]

\* on_message up to the permission gate and the edit-flow filters: return, or
\* go on to process_commands
Filter ==
    /\ hpc = "start"
    /\ IF msg.bot \/ ~msg.valid_channel THEN hpc' = "returned"
       ELSE IF ~PassesGate(msg) THEN hpc' = "returned"
       ELSE IF msg.edit_flow \/ msg.confirm_reply THEN hpc' = "returned"
       ELSE hpc' = "commands"
    /\ UNCHANGED <<msg, att, detected_items, passes, tried, sent, views, commands,
                   donation_log, raised>>
    /\ UNCHANGED <<scanVars, textVars, classVars, ledgerVars>>

\* await self.bot.process_commands(message); if not message.attachments: return
ProcessCommands ==
    /\ hpc = "commands"
    /\ commands' = IF InvokedCommand(msg.content) # <<>>
                   THEN Append(commands, InvokedCommand(msg.content)) ELSE commands
    /\ IF msg.attachments = <<>> THEN hpc' = "returned" /\ UNCHANGED att
       ELSE hpc' = "loop" /\ att' = 1
    /\ UNCHANGED <<msg, detected_items, passes, tried, sent, views, donation_log, raised>>
    /\ UNCHANGED <<scanVars, textVars, classVars, ledgerVars>>

\* the head of the loop over the attachments: the end of the loop, the
\* file-type test and the donator test
NextAttachment ==
    /\ hpc = "loop"
    /\ IF att > Len(msg.attachments)
       THEN hpc' = "returned" /\ UNCHANGED <<att, sent>>
       ELSE IF ~IsImageName(attachment.filename)
       THEN att' = att + 1 /\ UNCHANGED <<hpc, sent>>
       ELSE IF ~msg.mentions_member
       THEN /\ sent' = Append(sent, <<att, <<"mention the donator">> >>)
            /\ hpc' = "returned"
            /\ UNCHANGED att
       ELSE hpc' = "read" /\ UNCHANGED <<att, sent>>
    /\ UNCHANGED <<msg, detected_items, passes, tried, views, commands, donation_log, raised>>
    /\ UNCHANGED <<scanVars, textVars, classVars, ledgerVars>>

\* img_bytes = await attachment.read(); image = Image.open(...).convert("RGB"):
\* Image.open raises on bytes that are no image, and nothing catches it
ReadImage ==
    /\ hpc = "read"
    /\ tried' = Append(tried, att)
    /\ IF attachment.decodable THEN hpc' = "primary" /\ UNCHANGED raised
       ELSE raised' = "UnidentifiedImageError" /\ hpc' = "raised"
    /\ UNCHANGED att
    /\ UNCHANGED <<msg, detected_items, passes, sent, views, commands, donation_log>>
    /\ UNCHANGED <<scanVars, textVars, classVars, ledgerVars>>

\* Image.open(BytesIO(img_bytes)).convert("RGB"): <<width, height, mode>>
DecodedImage == LineImage \o <<"RGB">>

\* preprocess_image: img.convert("L") and a threshold into mode "1", the size kept
preprocess_image(img) == <<img[1], img[2], "1">>

\* scan_items(img, data) is entered
EnterScan(stream, h, img) ==
    /\ data' = stream /\ hue' = h
    /\ i' = 0 /\ j' = 0 /\ item_words' = <<>> /\ amount' = 1
    /\ results' = <<>> /\ owner' = <<>> /\ opened' = <<>> /\ used' = <<>>
    /\ spc' = "outer"
    /\ image' = img /\ geom' = LineGeom(stream) /\ boxes' = <<>> /\ crop' = <<>>

\* data_raw = pytesseract.image_to_data(image, ...): the engine raises, or
\* scan_items(image, data_raw) is entered
OcrPrimary ==
    /\ hpc = "primary"
    /\ passes' = Append(passes, <<att, "primary">>)
    /\ IF ~attachment.raw_ok
       THEN /\ raised' = "TesseractError" /\ hpc' = "raised"
            /\ UNCHANGED scanVars
       ELSE /\ EnterScan(attachment.raw, attachment.hue, DecodedImage)
            /\ hpc' = "scan1"
            /\ UNCHANGED raised
    /\ UNCHANGED <<msg, att, detected_items, tried, sent, views, commands, donation_log>>
    /\ UNCHANGED <<textVars, classVars, ledgerVars>>

RetryAlways(items) == TRUE
\* if not detected_items
RetryOnEmpty(items) == items = <<>>

\* detected_items = await scan_items(image, data_raw) has returned; if it is
\* empty: processed = preprocess_image(image), data_processed =
\* pytesseract.image_to_data(processed, ...), and scan_items(processed,
\* data_processed) is entered.  The processed image is black and white: no
\* pixel of it has a saturation.
AfterPrimary ==
    /\ hpc = "scan1" /\ spc = "done"
    /\ detected_items' = results
    /\ IF ~RetryOnEmpty(results)
       THEN /\ hpc' = "present"
            /\ UNCHANGED <<passes, raised, scanVars>>
       ELSE /\ passes' = Append(passes, <<att, "fallback">>)
            /\ IF ~attachment.processed_ok
               THEN /\ raised' = "TesseractError" /\ hpc' = "raised"
                    /\ UNCHANGED scanVars
               ELSE /\ EnterScan(attachment.processed, <<>>, preprocess_image(image))
                    /\ hpc' = "scan2"
                    /\ UNCHANGED raised
    /\ UNCHANGED <<msg, att, tried, sent, views, commands, donation_log>>
    /\ UNCHANGED <<textVars, classVars, ledgerVars>>

\* detect_quality_hsv(region) on a crop of the processed image: the crop has
\* one channel, and rgb2hsv raises on an array that has not three
ClassifierRaises ==
    /\ hpc = "scan2" /\ spc = "post"
    /\ item_words # <<>> /\ NormalizeName(item_words) # <<>>
    /\ raised' = "ValueError" /\ hpc' = "raised"
    /\ UNCHANGED <<msg, att, detected_items, passes, tried, sent, views, commands,
                   donation_log>>
    /\ UNCHANGED <<scanVars, textVars, classVars, ledgerVars>>

\* detected_items = await scan_items(processed, data_processed) has returned
AfterFallback ==
    /\ hpc = "scan2" /\ spc = "done"
    /\ detected_items' = results
    /\ hpc' = "present"
    /\ UNCHANGED <<msg, att, passes, tried, sent, views, commands, donation_log, raised>>
    /\ UNCHANGED <<scanVars, textVars, classVars, ledgerVars>>

NeverNothing(items) == FALSE
\* if not detected_items (after the fallback)
NothingFound(items) == items = <<>>

\* if not detected_items: send "No items found." and return; else send the
\* preview with an OCRReviewButton view and go on with the next attachment
Present ==
    /\ hpc = "present"
    /\ IF NothingFound(detected_items)
       THEN /\ sent' = Append(sent, <<att, <<"No items found.">> >>)
            /\ hpc' = "returned"
            /\ UNCHANGED <<att, views>>
       ELSE /\ views' = Append(views, [of |-> att, ocr_items |-> detected_items,
                                        stopped |-> FALSE, edits |-> 0, modals |-> 0])
            /\ sent' = Append(sent, <<att, format_preview(detected_items)>>)
            /\ att' = att + 1
            /\ hpc' = "loop"
    /\ UNCHANGED <<msg, detected_items, passes, tried, commands, donation_log, raised>>
    /\ UNCHANGED <<scanVars, textVars, classVars, ledgerVars>>

\* OCRReviewButton.confirm pressed by the image sender: apply_donation books
\* the items of the view, and the view stops
Confirm ==
    /\ \E v \in DOMAIN views :
         /\ ~views[v].stopped
         /\ donation_log' = Append(donation_log, <<views[v].of, views[v].ocr_items>>)
         /\ views' = [views EXCEPT ![v].stopped = TRUE]
    /\ UNCHANGED <<msg, att, hpc, detected_items, passes, tried, sent, commands, raised>>
    /\ UNCHANGED <<scanVars, textVars, classVars, ledgerVars>>

\* the cap on the Edit clicks followed on one review message
MaxEdits == 2

\* OCRReviewButton.edit pressed by the image sender: a modal with the items
\* of the view opens; the view goes on
Edit ==
    /\ \E v \in DOMAIN views :
         /\ ~views[v].stopped
         /\ views[v].edits < MaxEdits
         /\ views' = [views EXCEPT ![v].edits = @ + 1, ![v].modals = @ + 1]
    /\ UNCHANGED <<msg, att, hpc, detected_items, passes, tried, sent, commands,
                   donation_log, raised>>
    /\ UNCHANGED <<scanVars, textVars, classVars, ledgerVars>>

\* f"{amt} x {name} ({q})" with the multiplication sign
ModalLine(rec) ==
    ToStr(rec[3]) \o <<" ", "times", " ">> \o rec[1] \o <<" ", "(">> \o rec[2] \o <<")">>

\* default_text of OCRReviewModal: the lines of the items joined by "\n"
RECURSIVE default_text(_)
default_text(items) ==
    IF Len(items) = 0 THEN <<>>
    ELSE IF Len(items) = 1 THEN ModalLine(items[1])
    ELSE ModalLine(items[1]) \o <<"\n">> \o default_text(Tail(items))

\* what the image sender leaves in the modal: the default text, a line of
\* their own, or nothing that parses
ModalTexts(items) ==
    { default_text(items),
      <<"7", " ", "O", "a", "k", " ", "e">>,
      <<"?">> }

\* OCRReviewModal.on_submit: the text is parsed by parse_user_lines; with no
\* valid item a notice is sent, else apply_donation books the parsed items
Submit ==
    /\ \E v \in DOMAIN views :
         /\ views[v].modals > 0
         /\ \E text \in ModalTexts(views[v].ocr_items) :
              LET parsed_clean == parse_user_lines(SplitLines(Strip(text)))
              IN  IF parsed_clean = <<>>
                  THEN /\ sent' = Append(sent, <<views[v].of, <<"No valid items found.">> >>)
                       /\ UNCHANGED donation_log
                  ELSE /\ donation_log' =
                            Append(donation_log, <<views[v].of, parsed_clean>>)
                       /\ UNCHANGED sent
         /\ views' = [views EXCEPT ![v].modals = @ - 1]
    /\ UNCHANGED <<msg, att, hpc, detected_items, passes, tried, commands, raised>>
    /\ UNCHANGED <<scanVars, textVars, classVars, ledgerVars>>

----------------------------------------------------------------------------
(* bot/utils/formatting.py: chunk_message_blocks *)

\* "\n".join(parts)
RECURSIVE JoinNl(_)
JoinNl(parts) ==
    IF Len(parts) = 0 THEN <<>>
    ELSE IF Len(parts) = 1 THEN parts[1]
    ELSE parts[1] \o <<"\n">> \o JoinNl(Tail(parts))

\* the loop of chunk_message_blocks over the blocks bs, with the chunks made
\* so far, the blocks of the current chunk and current_len; in the end the
\* current blocks are a last chunk when there are any
RECURSIVE ChunkLoop(_, _, _, _, _)
ChunkLoop(bs, made, current, current_len, limit) ==
    IF Len(bs) = 0
    THEN IF current # <<>> THEN Append(made, JoinNl(current)) ELSE made
    ELSE LET b == bs[1]
             blen == Len(b) + 1
         IN  IF current_len + blen > limit
             THEN ChunkLoop(Tail(bs), Append(made, JoinNl(current)), <<b>>, blen, limit)
             ELSE ChunkLoop(Tail(bs), made, Append(current, b), current_len + blen, limit)

\* chunk_message_blocks(blocks, max_chars) of bot/utils/formatting.py
chunk_message_blocks(bs, limit) == ChunkLoop(bs, <<>>, <<>>, 0, limit)

\* a call of chunk_message_blocks returns
ChunkBlocks ==
    /\ lpc = "call"
    /\ chunks' = chunk_message_blocks(blocks, max_chars)
    /\ lpc' = "done"
    /\ UNCHANGED <<blocks, max_chars, ws_b, ws_g, ws_d, ws_a, ws_audit, snapshot,
                   invoked, audit_views>>
    /\ UNCHANGED <<scanVars, textVars, classVars, pipeVars>>

----------------------------------------------------------------------------
(* bot/services/sheets_service.py *)

\* _norm_text: re.sub(r"[^\w\s]", "", str(s)).strip().lower()
norm_text(s) ==
    LET IsWordOrSpace(c) == IsWordChar(c) \/ c \in SpaceSet
    IN  Lower(Strip(SelectSeq(s, IsWordOrSpace)))

\* _norm_item_key and _norm_banker_key
norm_item_key(item, quality) == <<norm_text(item), norm_text(quality)>>
norm_banker_key(item, quality, banker) ==
    <<norm_text(item), norm_text(quality), norm_text(banker)>>

\* a defaultdict(int) is a sequence of <<key, amount>> in insertion order;
\* d[key] += n
DictAdd(d, key, n) ==
    IF \E k \in DOMAIN d : d[k][1] = key
    THEN [k \in DOMAIN d |-> IF d[k][1] = key THEN <<key, d[k][2] + n>> ELSE d[k]]
    ELSE Append(d, <<key, n>>)

DictHas(d, key) == \E k \in DOMAIN d : d[k][1] = key
\* d.get(key, 0)
DictGet(d, key) ==
    IF DictHas(d, key) THEN d[CHOOSE k \in DOMAIN d : d[k][1] = key][2] ELSE 0

\* the row number a lookup built by a dict comprehension over the rows of
\* the Banker Inventory holds for the key (the last row with the key wins),
\* 0 when the key is not in it; rows are numbered from 1 here
BankerRow(rows, key) ==
    LET hits == {k \in DOMAIN rows :
                   norm_banker_key(rows[k][1], rows[k][2], rows[k][3]) = key}
    IN  IF hits = {} THEN 0 ELSE Max(hits)

\* the same for the Guild Bank Inventory
GuildRow(rows, key) ==
    LET hits == {k \in DOMAIN rows : norm_item_key(rows[k][1], rows[k][2]) = key}
    IN  IF hits = {} THEN 0 ELSE Max(hits)

\* stacked of apply_donation: the amounts summed per normalized
\* (item, quality, banker)
RECURSIVE StackByBanker(_, _, _)
StackByBanker(items, banker_name, acc) ==
    IF Len(items) = 0 THEN acc
    ELSE StackByBanker(Tail(items), banker_name,
            DictAdd(acc, norm_banker_key(items[1][1], items[1][2], banker_name),
                    items[1][3]))

\* updated_map of apply_audit_for_banker, delta of the guild totals: the
\* amounts times sign summed per normalized (item, quality)
RECURSIVE StackByItem(_, _, _)
StackByItem(items, sign, acc) ==
    IF Len(items) = 0 THEN acc
    ELSE StackByItem(Tail(items), sign,
            DictAdd(acc, norm_item_key(items[1][1], items[1][2]), sign * items[1][3]))

\* apply_donation on the Banker Inventory: the rows found in the lookup get
\* current + amount, the other keys become new rows at the end
DonationToBanker(rows, stacked, banker_name) ==
    LET IsNew(e) == BankerRow(rows, e[1]) = 0
        hit(k) == {n \in DOMAIN stacked : BankerRow(rows, stacked[n][1]) = k}
        updated == [k \in DOMAIN rows |->
                      IF hit(k) = {} THEN rows[k]
                      ELSE [rows[k] EXCEPT ![4] = @ + stacked[CHOOSE n \in hit(k) : TRUE][2]]]
        fresh == SelectSeq(stacked, IsNew)
    IN  updated \o [n \in DOMAIN fresh |->
                      <<Title(fresh[n][1][1]), Title(fresh[n][1][2]), banker_name, fresh[n][2]>>]

\* apply_donation on the Donations log: one row per stacked key
DonationToLog(rows, stacked, donator_name) ==
    rows \o [n \in DOMAIN stacked |->
               <<donator_name, Title(stacked[n][1][1]), Title(stacked[n][1][2]), stacked[n][2]>>]

\* apply_donation on the guild totals: update_cell(row, 3, current_amt +
\* delta) for a key in the lookup, append_row for another
RECURSIVE DonationToGuild(_, _, _)
DonationToGuild(rows, lookup_rows, deltas) ==
    IF Len(deltas) = 0 THEN rows
    ELSE LET key == deltas[1][1]
             d == deltas[1][2]
             r == GuildRow(lookup_rows, key)
         IN  DonationToGuild(
                IF r # 0 THEN [rows EXCEPT ![r][3] = lookup_rows[r][3] + d]
                ELSE Append(rows, <<Title(key[1]), Title(key[2]), d>>),
                lookup_rows, Tail(deltas))

\* the keys of stacked without the banker
RECURSIVE DeltaTotals(_, _)
DeltaTotals(stacked, acc) ==
    IF Len(stacked) = 0 THEN acc
    ELSE DeltaTotals(Tail(stacked),
            DictAdd(acc, <<stacked[1][1][1], stacked[1][1][2]>>, stacked[1][2]))

\* apply_donation(items, donator_name, banker_name): the worksheets after it
apply_donation(b, g, d, items, donator_name, banker_name) ==
    LET stacked == StackByBanker(items, banker_name, <<>>)
    IN  [b |-> DonationToBanker(b, stacked, banker_name),
         g |-> DonationToGuild(g, g, DeltaTotals(stacked, <<>>)),
         d |-> DonationToLog(d, stacked, donator_name)]

\* the loop "Subtract materials" of craft_or_process: the rows after it and
\* whether ValueError was raised; each update_cell is done when its material
\* is reached, the rows written before a raise stay written
RECURSIVE SubtractMaterials(_, _, _)
SubtractMaterials(rows, materials, banker_name) ==
    IF Len(materials) = 0 THEN [rows |-> rows, raised |-> FALSE]
    ELSE LET r == BankerRow(rows, norm_banker_key(materials[1][1], materials[1][2],
                                                  banker_name))
         IN  IF r = 0 THEN [rows |-> rows, raised |-> TRUE]
             ELSE SubtractMaterials(
                     [rows EXCEPT ![r][4] = Greater(@ - materials[1][3], 0)],
                     Tail(materials), banker_name)

\* the loop "Add outputs": a key in banker_map gets update_cell(row, 4,
\* current + amount) with current as banker_map holds it (the map is not
\* updated in this loop), another key is appended as a row
RECURSIVE AddOutputs(_, _, _, _)
AddOutputs(rows, banker_map, outputs, banker_name) ==
    IF Len(outputs) = 0 THEN rows
    ELSE LET r == BankerRow(banker_map, norm_banker_key(outputs[1][1], outputs[1][2],
                                                        banker_name))
         IN  AddOutputs(
                IF r # 0 THEN [rows EXCEPT ![r][4] = banker_map[r][4] + outputs[1][3]]
                ELSE Append(rows, <<Title(outputs[1][1]), Title(outputs[1][2]),
                                    banker_name, outputs[1][3]>>),
                banker_map, Tail(outputs), banker_name)

\* the guild totals after the deltas of craft_or_process or of
\* apply_audit_for_banker: a delta of 0 is skipped, a key in the lookup gets
\* max(current + d, 0), another key is appended when d > 0
RECURSIVE ApplyGuildDelta(_, _, _)
ApplyGuildDelta(rows, lookup_rows, deltas) ==
    IF Len(deltas) = 0 THEN rows
    ELSE LET key == deltas[1][1]
             d == deltas[1][2]
             r == GuildRow(lookup_rows, key)
         IN  ApplyGuildDelta(
                IF d = 0 THEN rows
                ELSE IF r # 0 THEN [rows EXCEPT ![r][3] = Greater(lookup_rows[r][3] + d, 0)]
                ELSE IF d > 0 THEN Append(rows, <<Title(key[1]), Title(key[2]), d>>)
                ELSE rows,
                lookup_rows, Tail(deltas))

\* craft_or_process(banker_name, materials, outputs, is_processing): the
\* worksheets after it and whether it raised ValueError
craft_or_process(b, g, a, banker_name, materials, outputs, is_processing) ==
    LET sub == SubtractMaterials(b, materials, banker_name)
        delta == StackByItem(IF is_processing THEN outputs ELSE <<>>, 1,
                             StackByItem(materials, -1, <<>>))
    IN  IF sub.raised THEN [b |-> sub.rows, g |-> g, a |-> a, raised |-> TRUE]
        ELSE [b |-> IF is_processing
                    THEN AddOutputs(sub.rows, sub.rows, outputs, banker_name)
                    ELSE sub.rows,
              g |-> ApplyGuildDelta(g, g, delta),
              a |-> Append(a, <<banker_name, materials, outputs>>),
              raised |-> FALSE]

\* str(r["Banker"]).strip() == banker_name
OwnedBy(row, banker_name) == Strip(row[3]) = banker_name

\* old_map of apply_audit_for_banker: the banker's amounts per normalized
\* (item, quality)
RECURSIVE OldMap(_, _, _)
OldMap(rows, banker_name, acc) ==
    IF Len(rows) = 0 THEN acc
    ELSE OldMap(Tail(rows), banker_name,
                IF OwnedBy(rows[1], banker_name)
                THEN DictAdd(acc, norm_item_key(rows[1][1], rows[1][2]), rows[1][4])
                ELSE acc)

\* delta_totals: updated - old over the keys of both maps (the keys of
\* updated_map first; the order only decides the order of appended rows)
AuditDeltas(updated_map, old_map) ==
    LET IsGone(e) == ~DictHas(updated_map, e[1])
        gone == SelectSeq(old_map, IsGone)
    IN  [n \in DOMAIN updated_map |->
           <<updated_map[n][1], updated_map[n][2] - DictGet(old_map, updated_map[n][1])>>]
        \o [n \in DOMAIN gone |-> <<gone[n][1], 0 - gone[n][2]>>]

\* apply_audit_for_banker(banker_name, updated_items): the rows of the other
\* bankers are kept, the banker's rows are replaced by the audited amounts
apply_audit_for_banker(b, g, log, banker_name, updated_items) ==
    LET updated_map == StackByItem(updated_items, 1, <<>>)
        old_map == OldMap(b, banker_name, <<>>)
        NotOwned(row) == ~OwnedBy(row, banker_name)
        result_rows == SelectSeq(b, NotOwned)
    IN  [b |-> result_rows \o
                 [n \in DOMAIN updated_map |->
                    <<Title(updated_map[n][1][1]), Title(updated_map[n][1][2]),
                      banker_name, updated_map[n][2]>>],
         g |-> ApplyGuildDelta(g, g, AuditDeltas(updated_map, old_map)),
         log |-> Append(log, <<banker_name, old_map, updated_map>>)]

\* display names of two bankers and of a donator
Ann == <<"A", "n", "n">>
Bob == <<"B", "o", "b">>
Bankers == {Ann, Bob}
Donator == <<"D", "o", "n">>

Plank == <<"P", "l", "a", "n", "k">>
Oak1 == <<Title(wOak), Title(wCommon), 1>>
Oak2 == <<Title(wOak), Title(wCommon), 2>>
Plank1 == <<Plank, Title(wCommon), 1>>
Plank2 == <<Plank, Title(wCommon), 2>>
\* what is donated, used, made and audited
DonationLists == { <<Oak1>>, <<Oak2, Plank1>> }
MaterialLists == { <<Oak2>>, <<Oak1, Plank1>> }
OutputLists == { <<>>, <<Plank1, Plank2>> }
AuditLists == { <<Oak1>>, <<Plank2>> }

\* the cap on the calls of the service followed
MaxCalls == 3

Called(name, banker_name, first, second, flag, err) ==
    [op |-> name, banker |-> banker_name, items |-> first, outputs |-> second,
     is_processing |-> flag, raised |-> err, chunk |-> 0, n |-> invoked.n + 1]

\* a donation is confirmed: apply_donation(items, donator_name, banker_name)
ApplyDonation ==
    /\ lpc = "sheets" /\ invoked.n < MaxCalls
    /\ \E items \in DonationLists, banker_name \in Bankers :
         LET after == apply_donation(ws_b, ws_g, ws_d, items, Donator, banker_name)
         IN  /\ ws_b' = after.b /\ ws_g' = after.g /\ ws_d' = after.d
             /\ invoked' = Called("donation", banker_name, items, <<>>, FALSE, FALSE)
    /\ snapshot' = <<ws_b, ws_g, ws_a>>
    /\ UNCHANGED <<blocks, max_chars, chunks, ws_a, ws_audit, audit_views, lpc>>
    /\ UNCHANGED <<scanVars, textVars, classVars, pipeVars>>

\* CraftProcessModal.on_submit: craft_or_process(banker_name, materials,
\* outputs, is_processing) with outputs = [] when crafting; an exception is
\* caught and reported
CraftOrProcess ==
    /\ lpc = "sheets" /\ invoked.n < MaxCalls
    /\ \E banker_name \in Bankers, materials \in MaterialLists,
          outputs \in OutputLists, is_processing \in BOOLEAN :
         /\ ~is_processing => outputs = <<>>
         /\ LET after == craft_or_process(ws_b, ws_g, ws_a, banker_name, materials,
                                          outputs, is_processing)
            IN  /\ ws_b' = after.b /\ ws_g' = after.g /\ ws_a' = after.a
                /\ invoked' = Called("craft", banker_name, materials, outputs,
                                     is_processing, after.raised)
    /\ snapshot' = <<ws_b, ws_g, ws_a>>
    /\ UNCHANGED <<blocks, max_chars, chunks, ws_d, ws_audit, audit_views, lpc>>
    /\ UNCHANGED <<scanVars, textVars, classVars, pipeVars>>

\* an audit is applied: apply_audit_for_banker(banker_name, updated_items)
ApplyAudit ==
    /\ lpc = "sheets" /\ invoked.n < MaxCalls
    /\ \E banker_name \in Bankers, updated_items \in AuditLists :
         LET after == apply_audit_for_banker(ws_b, ws_g, ws_audit, banker_name,
                                             updated_items)
         IN  /\ ws_b' = after.b /\ ws_g' = after.g /\ ws_audit' = after.log
             /\ invoked' = Called("audit", banker_name, updated_items, <<>>, FALSE, FALSE)
    /\ snapshot' = <<ws_b, ws_g, ws_a>>
    /\ UNCHANGED <<blocks, max_chars, chunks, ws_d, ws_a, audit_views, lpc>>
    /\ UNCHANGED <<scanVars, textVars, classVars, pipeVars>>

----------------------------------------------------------------------------
(* bot/cogs/audit.py, AuditChunkView (bot/ui/views.py), AuditEditModal
   (bot/ui/modals.py) *)

\* ord(c) of the characters of the rows
Ord(c) ==
    IF c \in DigitSet THEN 47 + (CHOOSE k \in DOMAIN DigitSeq : DigitSeq[k] = c)
    ELSE IF c \in UpperSet THEN 64 + (CHOOSE k \in DOMAIN Uppers : Uppers[k] = c)
    ELSE IF c \in LowerSet THEN 96 + (CHOOSE k \in DOMAIN Lowers : Lowers[k] = c)
    ELSE IF c = " " THEN 32
    ELSE IF c = "'" THEN 39
    ELSE IF c = "(" THEN 40
    ELSE IF c = ")" THEN 41
    ELSE IF c = "-" THEN 45
    ELSE IF c = "_" THEN 95
    ELSE IF c = "times" THEN 215
    ELSE IF c = "dotless_i" THEN 305
    ELSE 128000

\* a < b for str
RECURSIVE StrLess(_, _)
StrLess(a, b) ==
    IF Len(b) = 0 THEN FALSE
    ELSE IF Len(a) = 0 THEN TRUE
    ELSE IF a[1] = b[1] THEN StrLess(Tail(a), Tail(b))
    ELSE Ord(a[1]) < Ord(b[1])

\* sorted(owned): tuples (item, quality, amount) compare item, then
\* quality, then amount
RECURSIVE InsertOwned(_, _)
InsertOwned(sorted, x) ==
    LET OwnedLess(a, b) ==
            \/ StrLess(a[1], b[1])
            \/ a[1] = b[1] /\ StrLess(a[2], b[2])
            \/ a[1] = b[1] /\ a[2] = b[2] /\ a[3] < b[3]
    IN  IF Len(sorted) = 0 THEN <<x>>
        ELSE IF OwnedLess(x, sorted[1]) THEN <<x>> \o sorted
        ELSE <<sorted[1]>> \o InsertOwned(Tail(sorted), x)
RECURSIVE SortOwned(_)
SortOwned(owned) ==
    IF Len(owned) = 0 THEN <<>>
    ELSE InsertOwned(SortOwned(SubSeq(owned, 1, Len(owned) - 1)), owned[Len(owned)])

\* owned: (Item, Quality, Amount) of the rows whose Banker is banker_name
Owned(rows, banker_name) ==
    LET Mine(row) == OwnedBy(row, banker_name)
        mine == SelectSeq(rows, Mine)
    IN  [k \in DOMAIN mine |-> <<mine[k][1], mine[k][2], mine[k][4]>>]

\* f"{QUALITY_EMOJIS.get(q, 'bullet')} {amt} x {item} ({q})" with the
\* multiplication sign
ListingLine(rec) ==
    <<EmojiOf(rec[2]), " ">> \o ToStr(rec[3]) \o <<" ", "times", " ">> \o rec[1]
      \o <<" ", "(">> \o rec[2] \o <<")">>

\* max_chars of the audit command: 1800 in the code, here in the scale of
\* the inventories followed, so that two lines fit a chunk and three do not
AuditMaxChars == 40

\* the AuditChunkView of one chunk: its items are the chunk parsed back
ChunkView(banker_name, chunk) ==
    [banker |-> banker_name, items |-> parse_audit_lines(SplitLines(chunk)),
     stopped |-> FALSE, modals |-> 0]

\* !audit by a banker in the audit channel: the banker's rows are listed,
\* chunked, and each chunk is sent with its view
AuditCommand ==
    /\ lpc = "audit" /\ audit_views = <<>>
    /\ \E banker_name \in Bankers :
         LET owned == Owned(ws_b, banker_name)
             listing == SortOwned(owned)
             lns == [k \in DOMAIN listing |-> ListingLine(listing[k])]
             parts == chunk_message_blocks(lns, AuditMaxChars)
         IN  /\ owned # <<>>
             /\ blocks' = lns /\ max_chars' = AuditMaxChars /\ chunks' = parts
             /\ audit_views' = [k \in DOMAIN parts |-> ChunkView(banker_name, parts[k])]
    /\ UNCHANGED <<ws_b, ws_g, ws_d, ws_a, ws_audit, snapshot, invoked, lpc>>
    /\ UNCHANGED <<scanVars, textVars, classVars, pipeVars>>

\* AuditChunkView.confirm pressed by the banker: the items of the view are
\* applied, and the view stops
AuditConfirm ==
    /\ lpc = "audit" /\ invoked.n < MaxCalls
    /\ \E v \in DOMAIN audit_views :
         LET view == audit_views[v]
             after == apply_audit_for_banker(ws_b, ws_g, ws_audit, view.banker, view.items)
         IN  /\ ~view.stopped
             /\ ws_b' = after.b /\ ws_g' = after.g /\ ws_audit' = after.log
             /\ invoked' = [Called("audit", view.banker, view.items, <<>>, FALSE, FALSE)
                              EXCEPT !.chunk = v]
             /\ audit_views' = [audit_views EXCEPT ![v].stopped = TRUE]
    /\ snapshot' = <<ws_b, ws_g, ws_a>>
    /\ UNCHANGED <<blocks, max_chars, chunks, ws_d, ws_a, lpc>>
    /\ UNCHANGED <<scanVars, textVars, classVars, pipeVars>>

\* AuditChunkView.edit pressed by the banker: an AuditEditModal with the
\* items of the view opens
AuditEdit ==
    /\ lpc = "audit"
    /\ \E v \in DOMAIN audit_views :
         /\ ~audit_views[v].stopped
         /\ audit_views[v].modals = 0
         /\ audit_views' = [audit_views EXCEPT ![v].modals = 1]
    /\ UNCHANGED <<blocks, max_chars, chunks, ws_b, ws_g, ws_d, ws_a, ws_audit,
                   snapshot, invoked, lpc>>
    /\ UNCHANGED <<scanVars, textVars, classVars, pipeVars>>

\* what the banker leaves in the modal: the default text, the default text
\* with the amount of the first item turned into 7, or nothing that parses
AuditTexts(items) ==
    { default_text(items),
      default_text(<<[items[1] EXCEPT ![3] = 7]>> \o Tail(items)),
      <<"?">> }

\* AuditEditModal.on_submit: the text is parsed by parse_audit_lines; with no
\* valid item a notice is sent, else the parsed items are applied
AuditSubmit ==
    /\ lpc = "audit" /\ invoked.n < MaxCalls
    /\ \E v \in DOMAIN audit_views :
         LET view == audit_views[v]
         IN  /\ view.modals > 0
             /\ view.items # <<>>
             /\ \E text \in AuditTexts(view.items) :
                  LET parsed == parse_audit_lines(SplitLines(Strip(text)))
                      after == apply_audit_for_banker(ws_b, ws_g, ws_audit,
                                                      view.banker, parsed)
                  IN  IF parsed = <<>>
                      THEN UNCHANGED <<ws_b, ws_g, ws_audit, snapshot, invoked>>
                      ELSE /\ ws_b' = after.b /\ ws_g' = after.g
                           /\ ws_audit' = after.log
                           /\ snapshot' = <<ws_b, ws_g, ws_a>>
                           /\ invoked' =
                                [Called("audit", view.banker, parsed, <<>>, FALSE, FALSE)
                                   EXCEPT !.chunk = v]
             /\ audit_views' = [audit_views EXCEPT ![v].modals = 0]
    /\ UNCHANGED <<blocks, max_chars, chunks, ws_d, ws_a, lpc>>
    /\ UNCHANGED <<scanVars, textVars, classVars, pipeVars>>

----------------------------------------------------------------------------
(* Inputs *)

MaxStream == 4
MaxTokens == 3
MaxRecords == 2

SeqsUpTo(S, n) == UNION {[1..k -> S] : k \in 0..n}

cat3(a, b, c) == a \o b \o c

\* OCR words: markers in two spellings, name words, quantity markers, an
\* empty and a blank word, a bracketed word, a punctuation word
ScanTokens ==
    { Title(wAcquired), wRemoved \o <<":">>, Title(wOak), <<"x", "5">>, <<"x", "0">>,
      <<>>, <<" ">>, cat3(<<"[">>, wOak, <<"]">>), <<"-">> }

ExampleStream ==
    << Title(wAcquired), Title(wOak), Title(wWood), <<"x", "5">>,
       Title(wRemoved), Title(wIron), Title(wOre) >>

ScanInputs == SeqsUpTo(ScanTokens, MaxStream) \cup {ExampleStream}

MaxScanWords == 4

\* OCR words of the streams scan_items is followed to its return on: a
\* marker, a name word, a quantity marker and an empty word
LoopTokens == { wRemoved \o <<":">>, Title(wOak), <<"x", "5">>, <<>> }
LoopStreams == SeqsUpTo(LoopTokens, MaxScanWords)

MaxCropWords == 3

CropTokens == {Title(wAcquired), Title(wOak), <<"x", "5">>}
CropStreams == SeqsUpTo(CropTokens, MaxCropWords)
ImageSizes == {<<10, 10>>, <<20, 12>>}
\* boxes <<left, top, width, height>>: at the top left corner, near the right
\* and bottom edge of the smaller image, of no extent, and reaching beyond
\* the smaller image
BoxSamples == {<<0, 0, 3, 2>>, <<5, 6, 4, 3>>, <<4, 3, 0, 0>>, <<8, 7, 5, 5>>}

HueSamples == {<<>>, <<Deg(45)>>, <<Deg(300)>>}

MaxPixels == 3

\* a table with the six tiers in the listed order, Common without a range
HueTable(u, r, h, e, l) ==
    << <<Title(wCommon), <<>> >>, <<Title(wUncommon), u>>, <<Title(wRare), r>>,
       <<Title(wHeroic), h>>, <<Title(wEpic), e>>, <<Title(wLegendary), l>> >>

\* the table of the module with Legendary wrapping around 360
WrapLastTable == HueTable(<<95, 140>>, <<190, 240>>, <<40, 70>>, <<260, 310>>, <<300, 20>>)
\* the table of the module with Uncommon wrapping around 360
WrapFirstTable == HueTable(<<350, 45>>, <<190, 240>>, <<40, 70>>, <<260, 310>>, <<20, 50>>)
\* every range holds every hue
AnyHueTable == HueTable(<<0, 360>>, <<0, 360>>, <<0, 360>>, <<0, 360>>, <<0, 360>>)

HueTables == {QUALITY_HUE_RANGES, WrapLastTable, WrapFirstTable, AnyHueTable}

\* pixels <<hue in degrees, saturation, value in hundredths>>: coloured pixels
\* at and around the bounds of the ranges, a grey pixel, a pixel at the
\* saturation threshold and a pixel at the value threshold
PixelSamples ==
    {<<h, 31, 21>> : h \in {20, 45, 50, 51, 70, 71, 300, 310, 350}}
      \cup {<<0, 0, 100>>, <<45, 30, 100>>, <<300, 100, 20>>}

Regions == SeqsUpTo(PixelSamples, MaxPixels)

\* word streams with two records, with one and with none
ConcurrentStreams ==
    {ExampleStream, <<Title(wAcquired), Title(wOak), <<"x", "5">>>>, <<Title(wOak)>>}

\* regions whose classification is Common, Heroic and Epic
ConcurrentRegions == { <<>>, << <<45, 31, 21>> >>, << <<300, 31, 21>> >> }

MaxAttachments == 2

ItemStream == <<Title(wAcquired), Title(wOak), <<"x", "5">>>>
PngName == <<"a", ".", "p", "n", "g">>

\* an attachment: its file name, whether its bytes are an image, what the OCR
\* engine gives for the image and for the preprocessed image (raw_ok and
\* processed_ok FALSE: the engine raises), and the masked median hue of its
\* crops
Attachment(name, dec, rok, rw, pok, pr) ==
    [filename |-> name, decodable |-> dec, raw_ok |-> rok, raw |-> rw,
     processed_ok |-> pok, processed |-> pr, hue |-> <<Deg(300)>>]

TextFile == Attachment(<<"a", ".", "t", "x", "t">>, FALSE, TRUE, <<>>, TRUE, <<>>)
CorruptPng == Attachment(PngName, FALSE, TRUE, <<>>, TRUE, <<>>)
EngineFails == Attachment(Title(PngName), TRUE, FALSE, <<>>, TRUE, <<>>)
ItemsAtOnce == Attachment(<<"a", ".", "J", "P", "G">>, TRUE, TRUE, ItemStream, TRUE, <<>>)
ItemsOnRetry == Attachment(PngName, TRUE, TRUE, <<Title(wOak)>>, TRUE, ItemStream)
NoItems == Attachment(<<"a", ".", "j", "p", "e", "g">>, TRUE, TRUE, <<>>, TRUE, <<Title(wOak)>>)
RetryFails == Attachment(PngName, TRUE, TRUE, <<>>, FALSE, <<>>)

AttachmentSamples ==
    {TextFile, CorruptPng, EngineFails, ItemsAtOnce, ItemsOnRetry, NoItems, RetryFails}

Member(o, a, b) == [owner |-> o, administrator |-> a, banker |-> b]
Members == {Member(TRUE, FALSE, FALSE), Member(FALSE, TRUE, FALSE),
            Member(FALSE, FALSE, TRUE), Member(FALSE, FALSE, FALSE)}

\* message texts: none, the donation query, a text that only starts like it,
\* the query in another case, and a plain text
Contents ==
    { <<>>, <<"!", "d", " ", "x">>, <<"!", "d", "i", "g">>,
      <<"!">> \o Title(<<"d","o","n","a","t","i","o","n","s">>), <<"h", "i">> }

\* a message of a member in the donation channel, and the messages the
\* filters drop: of a bot, in another channel, of an edit flow, a reply to a
\* confirmation prompt
Filtered == {"no", "bot", "channel", "edit_flow", "confirm_reply"}

Messages ==
    { [bot |-> f = "bot", valid_channel |-> f # "channel",
       edit_flow |-> f = "edit_flow", confirm_reply |-> f = "confirm_reply",
       author |-> a, content |-> c, mentions_member |-> mm, attachments |-> as] :
        f \in Filtered, a \in Members, c \in Contents, mm \in BOOLEAN,
        as \in SeqsUpTo(AttachmentSamples, MaxAttachments) }

\* words a typed line is made of
LineTokens ==
    { <<"3">>, <<"0">>, <<"1", "0", "x">>, <<"x">>, wCopper, wHeroic, <<"e">>,
      Title(wOak), cat3(<<"(">>, Title(wEpic), <<")">>), <<",">>, wWood }

FreeLines == {JoinSp(ts) : ts \in SeqsUpTo(LineTokens, MaxTokens) \ {<<>>}}

t10 == <<"1", "0">>
SampleLines ==
    { JoinSp(<<t10, Title(wOak), Title(wWood), Title(wHeroic)>>),
      JoinSp(<<Title(wOak), Title(wWood)>>),
      JoinSp(<<<<"3">>, wCopper, wHeroic>>),
      JoinSp(<<wCopper, wHeroic>>),
      JoinSp(<<<<"3">>, wCopper>>),
      <<" ", " ">> \o JoinSp(<<<<"3">>, <<"x">>, <<>>, wOak, cat3(<<"(">>, <<"r">>, <<")">>)>>) \o <<" ">>,
      JoinSp(<<<<"-">>, <<"2">>, wOak, <<"+">>, wIron, wOre, <<"l">>>>),
      JoinSp(<<<<"3">>, <<"x">>, Title(wOak), <<"(", "e", "p", "dotless_i", "c", ")">>>>),
      <<>> }

Tiers == {Title(wCommon), Title(wUncommon), Title(wRare),
          Title(wHeroic), Title(wEpic), Title(wLegendary)}

\* item names of the parenthesized form: plain names, and names holding a
\* separator or a parenthesis
PlainNames == { JoinSp(<<Title(wOak), Title(wWood)>>), JoinSp(<<wIron, wOre>>),
                <<"x">>, <<"o", "'", "k">> }
OddNames == { cat3(Title(wOak), <<",", " ">>, Title(wWood)),
              JoinSp(<<Title(wOak), cat3(<<"(">>, <<"B">>, <<")">>)>>),
              cat3(Title(wOak), <<"+">>, <<"1">>) }
FormAmounts == {1, 3, 12, 0}

\* f"{amount} x {name} ({quality})"
FormLine(n, name, q) ==
    ToStr(n) \o <<" ", "x", " ">> \o name \o <<" ", "(">> \o q \o <<")">>

FormLines == {FormLine(n, name, q) :
                n \in FormAmounts, name \in PlainNames \cup OddNames, q \in Tiers}

TextInputs ==
    {<<l>> : l \in FreeLines \cup FormLines} \cup (SampleLines \X SampleLines)

MaxBlocks == 3

\* blocks: an empty one, short ones and one of four characters
BlockSamples == {<<>>, <<"a">>, <<"a", "b">>, <<"a", "b", "c", "d">>}
BlockLists == SeqsUpTo(BlockSamples, MaxBlocks)
\* limits: one below the longest block, and one that holds two short blocks
ChunkLimits == {3, 5}

\* what the two bankers were given before the audit
Copper3 == <<Title(wCopper), Title(wRare), 3>>
AnnStocks == { <<Oak1, Plank2, Copper3>>, <<Copper3, Oak2, Plank1>>, <<Oak1>> }
BobStocks == { <<Oak2>>, <<Plank1, Oak1>> }

RecordPool == {<<Title(name), q, n>> :
                 name \in PlainNames \cup OddNames, q \in Tiers, n \in {1, 12}}
RecordLists == SeqsUpTo(RecordPool, MaxRecords) \ {<<>>}

----------------------------------------------------------------------------
(* Specifications *)

ScanIdle ==
    /\ data = <<>> /\ hue = <<>> /\ i = 0 /\ j = 0 /\ item_words = <<>>
    /\ amount = 1 /\ results = <<>> /\ owner = <<>> /\ opened = <<>> /\ used = <<>>
    /\ spc = "idle"
    /\ image = <<0, 0>> /\ geom = <<>> /\ boxes = <<>> /\ crop = <<>>

TextIdle ==
    /\ records = <<>> /\ lines = <<>> /\ parsedUser = <<>> /\ parsedAudit = <<>>
    /\ qtoken = <<>> /\ qout = <<>> /\ ppc = "idle"

ClassIdle ==
    /\ region = <<>> /\ hue_table = QUALITY_HUE_RANGES /\ detected = <<>> /\ cpc = "idle"

PipeIdle ==
    /\ msg = <<>> /\ att = 0 /\ hpc = "idle" /\ detected_items = <<>>
    /\ passes = <<>> /\ tried = <<>> /\ sent = <<>> /\ views = <<>>
    /\ commands = <<>> /\ donation_log = <<>> /\ raised = ""

LedgerIdle ==
    /\ blocks = <<>> /\ max_chars = 0 /\ chunks = <<>>
    /\ ws_b = <<>> /\ ws_g = <<>> /\ ws_d = <<>> /\ ws_a = <<>> /\ ws_audit = <<>>
    /\ snapshot = <<>> /\ invoked = <<>> /\ audit_views = <<>> /\ lpc = "idle"

\* scan_items is entered with an OCR word stream: results = [], i = 0
InitScan ==
    /\ data \in ScanInputs
    /\ hue \in HueSamples
    /\ i = 0 /\ j = 0 /\ item_words = <<>> /\ amount = 1
    /\ results = <<>> /\ owner = <<>> /\ opened = <<>> /\ used = <<>>
    /\ spc = "outer"
    /\ image = LineImage /\ geom = LineGeom(data) /\ boxes = <<>> /\ crop = <<>>
    /\ TextIdle /\ ClassIdle /\ PipeIdle
    /\ LedgerIdle

NextScan == ScanOuter \/ ScanInner \/ ScanPost \/ ScanReturn

SpecScan == InitScan /\ [][NextScan]_vars

\* scan_items is entered with a word stream and the boxes of its words
InitCrop ==
    /\ data \in CropStreams
    /\ hue = <<>>
    /\ i = 0 /\ j = 0 /\ item_words = <<>> /\ amount = 1
    /\ results = <<>> /\ owner = <<>> /\ opened = <<>> /\ used = <<>>
    /\ spc = "outer"
    /\ image \in ImageSizes /\ geom \in [DOMAIN data -> BoxSamples]
    /\ boxes = <<>> /\ crop = <<>>
    /\ TextIdle /\ ClassIdle /\ PipeIdle
    /\ LedgerIdle

\* scan_items on a stream, each step of it taken in the end: a call that
\* is running is not suspended for ever (its only await-free body runs to
\* its return once entered)
InitLoop ==
    /\ data \in LoopStreams
    /\ hue = <<>>
    /\ i = 0 /\ j = 0 /\ item_words = <<>> /\ amount = 1
    /\ results = <<>> /\ owner = <<>> /\ opened = <<>> /\ used = <<>>
    /\ spc = "outer"
    /\ image = LineImage /\ geom = LineGeom(data) /\ boxes = <<>> /\ crop = <<>>
    /\ TextIdle /\ ClassIdle /\ PipeIdle
    /\ LedgerIdle

NextLoop == ScanOuter \/ ScanInner \/ ScanPost \/ ScanReturn

SpecLoop == InitLoop /\ [][NextLoop]_vars /\ WF_vars(NextLoop)

NextCrop == ScanOuter \/ ScanInner \/ ScanPost \/ ScanReturn

SpecCrop == InitCrop /\ [][NextCrop]_vars

\* typed lines reach the parsers
InitText ==
    /\ lines \in TextInputs
    /\ records = <<>> /\ parsedUser = <<>> /\ parsedAudit = <<>>
    /\ qtoken = <<>> /\ qout = <<>> /\ ppc = "ready"
    /\ ScanIdle /\ ClassIdle /\ PipeIdle
    /\ LedgerIdle

NextText == ParseUser \/ ParseAudit \/ ParseQuality

SpecText == InitText /\ [][NextText]_vars

\* a record list is rendered and the rendered text is parsed again
InitRound ==
    /\ records \in RecordLists
    /\ lines = <<>> /\ parsedUser = <<>> /\ parsedAudit = <<>>
    /\ qtoken = <<>> /\ qout = <<>> /\ ppc = "render"
    /\ ScanIdle /\ ClassIdle /\ PipeIdle
    /\ LedgerIdle

NextRound == Render \/ ParseUser

SpecRound == InitRound /\ [][NextRound]_vars

\* a message arrives at on_message
InitPipe ==
    /\ msg \in Messages
    /\ att = 0 /\ hpc = "start" /\ detected_items = <<>>
    /\ passes = <<>> /\ tried = <<>> /\ sent = <<>> /\ views = <<>>
    /\ commands = <<>> /\ donation_log = <<>> /\ raised = ""
    /\ ScanIdle /\ TextIdle /\ ClassIdle
    /\ LedgerIdle

NextPipe ==
    \/ Filter \/ ProcessCommands \/ NextAttachment \/ ReadImage \/ OcrPrimary
    \/ ScanOuter \/ ScanInner \/ ScanPost \/ ScanReturn
    \/ AfterPrimary \/ ClassifierRaises \/ AfterFallback \/ Present \/ Confirm

SpecPipe == InitPipe /\ [][NextPipe]_vars

\* on_message on a message with at most one attachment, and the image
\* sender acting on the review message it sends
InitReview == InitPipe /\ Len(msg.attachments) <= 1

NextReview == NextPipe \/ Edit \/ Submit

SpecReview == InitReview /\ [][NextReview]_vars

\* chunk_message_blocks is called with a list of blocks and a limit
InitChunk ==
    /\ blocks \in BlockLists /\ max_chars \in ChunkLimits
    /\ chunks = <<>> /\ lpc = "call"
    /\ ws_b = <<>> /\ ws_g = <<>> /\ ws_d = <<>> /\ ws_a = <<>> /\ ws_audit = <<>>
    /\ snapshot = <<>> /\ invoked = <<>> /\ audit_views = <<>>
    /\ ScanIdle /\ TextIdle /\ ClassIdle /\ PipeIdle

NextChunk == ChunkBlocks

SpecChunk == InitChunk /\ [][NextChunk]_vars

\* the service on a spreadsheet whose worksheets hold their headers only
InitSheets ==
    /\ ws_b = <<>> /\ ws_g = <<>> /\ ws_d = <<>> /\ ws_a = <<>> /\ ws_audit = <<>>
    /\ snapshot = <<ws_b, ws_g, ws_a>>
    /\ invoked = [op |-> "none", banker |-> <<>>, items |-> <<>>, outputs |-> <<>>,
                  is_processing |-> FALSE, raised |-> FALSE, chunk |-> 0, n |-> 0]
    /\ audit_views = <<>> /\ lpc = "sheets"
    /\ blocks = <<>> /\ max_chars = 0 /\ chunks = <<>>
    /\ ScanIdle /\ TextIdle /\ ClassIdle /\ PipeIdle

NextSheets == ApplyDonation \/ CraftOrProcess \/ ApplyAudit

SpecSheets == InitSheets /\ [][NextSheets]_vars

\* the audit command on sheets that donations to the two bankers have filled
InitAudit ==
    /\ \E ann \in AnnStocks, bob \in BobStocks :
         LET first == apply_donation(<<>>, <<>>, <<>>, ann, Donator, Ann)
             second == apply_donation(first.b, first.g, first.d, bob, Donator, Bob)
         IN  ws_b = second.b /\ ws_g = second.g /\ ws_d = second.d
    /\ ws_a = <<>> /\ ws_audit = <<>>
    /\ snapshot = <<ws_b, ws_g, ws_a>>
    /\ invoked = [op |-> "none", banker |-> <<>>, items |-> <<>>, outputs |-> <<>>,
                  is_processing |-> FALSE, raised |-> FALSE, chunk |-> 0, n |-> 0]
    /\ audit_views = <<>> /\ lpc = "audit"
    /\ blocks = <<>> /\ max_chars = 0 /\ chunks = <<>>
    /\ ScanIdle /\ TextIdle /\ ClassIdle /\ PipeIdle

NextAudit == AuditCommand \/ AuditConfirm \/ AuditEdit \/ AuditSubmit

SpecAudit == InitAudit /\ [][NextAudit]_vars

\* a scan_items call, a detect_quality_hsv call and the two grammars run at
\* the same time, each on its own input
InitConcurrent ==
    /\ data \in ConcurrentStreams /\ hue \in HueSamples
    /\ i = 0 /\ j = 0 /\ item_words = <<>> /\ amount = 1
    /\ results = <<>> /\ owner = <<>> /\ opened = <<>> /\ used = <<>>
    /\ spc = "outer"
    /\ image = LineImage /\ geom = LineGeom(data) /\ boxes = <<>> /\ crop = <<>>
    /\ region \in ConcurrentRegions /\ hue_table = QUALITY_HUE_RANGES
    /\ detected = <<>> /\ cpc = "call"
    /\ lines \in {<<l>> : l \in SampleLines}
    /\ records = <<>> /\ parsedUser = <<>> /\ parsedAudit = <<>>
    /\ qtoken = <<>> /\ qout = <<>> /\ ppc = "ready"
    /\ PipeIdle
    /\ LedgerIdle

NextConcurrent ==
    \/ ScanOuter \/ ScanInner \/ ScanPost \/ ScanReturn
    \/ Classify
    \/ ParseUser \/ ParseAudit \/ ParseQuality

SpecConcurrent == InitConcurrent /\ [][NextConcurrent]_vars

\* detect_quality_hsv is called on a region
InitClassify ==
    /\ region \in Regions
    /\ hue_table \in HueTables
    /\ detected = <<>> /\ cpc = "call"
    /\ ScanIdle /\ TextIdle /\ PipeIdle
    /\ LedgerIdle

NextClassify == Classify

SpecClassify == InitClassify /\ [][NextClassify]_vars

----------------------------------------------------------------------------
(* Word-Stream Segmenter: what scan_items returns, stated on the word stream *)

Range(f) == {f[k] : k \in DOMAIN f}

\* the stripped word at position p (1-based)
WordAt(d, p) == Strip(d[p])

\* a word that ends a name: a boundary marker or a quantity marker
StopsAtMarker(d, p) == IsBoundary(d[p]) \/ IsQuantityMarker(WordAt(d, p))

\* a word that ends a name: a marker, or a word that is empty once stripped
StopsAtMarkerOrEmpty(d, p) == StopsAtMarker(d, p) \/ WordAt(d, p) = <<>>

\* the first stop after position m, Len(d) + 1 when the stream ends first;
\* an empty word is a stop when orEmpty is TRUE
FirstStop(d, m, orEmpty) ==
    LET Stops(dd, p) == IF orEmpty THEN StopsAtMarkerOrEmpty(dd, p) ELSE StopsAtMarker(dd, p)
        S == {p \in (m + 1)..Len(d) : Stops(d, p)}
    IN  IF S = {} THEN Len(d) + 1 ELSE CHOOSE p \in S : \A q \in S : p <= q

\* the words between the marker at m and the first stop after it
WordsAfter(d, m, orEmpty) ==
    [k \in 1..(FirstStop(d, m, orEmpty) - m - 1) |-> WordAt(d, m + k)]

\* the quantity of the candidate of the marker at m
QuantityAfter(d, m, orEmpty) ==
    LET e == FirstStop(d, m, orEmpty)
    IN  IF e <= Len(d) /\ IsQuantityMarker(WordAt(d, e))
        THEN ToInt(Tail(WordAt(d, e))) ELSE 1

\* <<name, quantity>> of each record, in order
NameAndQuantity(rs) == [k \in DOMAIN rs |-> <<rs[k][1], rs[k][3]>>]

\* one record per marker followed by a name word, named by the joined words
RECURSIVE JoinedNameRecords(_, _)
JoinedNameRecords(d, m) ==
    IF m > Len(d) THEN <<>>
    ELSE LET ws == WordsAfter(d, m, TRUE)
         IN  (IF IsBoundary(d[m]) /\ ws # <<>>
              THEN << <<Title(JoinSp(ws)), QuantityAfter(d, m, TRUE)>> >>
              ELSE <<>>) \o JoinedNameRecords(d, m + 1)

\* one record per marker whose joined words leave a name after trimming,
\* named by the trimmed name
RECURSIVE TrimmedNameRecords(_, _)
TrimmedNameRecords(d, m) ==
    IF m > Len(d) THEN <<>>
    ELSE LET ws == WordsAfter(d, m, TRUE)
         IN  (IF IsBoundary(d[m]) /\ NormalizeName(ws) # <<>>
              THEN << <<Title(NormalizeName(ws)), QuantityAfter(d, m, TRUE)>> >>
              ELSE <<>>) \o TrimmedNameRecords(d, m + 1)

OakWood == JoinSp(<<Title(wOak), Title(wWood)>>)
IronOre == JoinSp(<<Title(wIron), Title(wOre)>>)

\* C1 as stated: scan_items returns, in stream order, one record for each
\* boundary marker followed by at least one name word, the name being the
\* accumulated words joined by single spaces and title-cased, the quantity
\* the value of the closing x<digits> word or 1.
C1_JoinedNames ==
    spc = "done" => NameAndQuantity(results) = JoinedNameRecords(data, 1)

\* C1 as amended: scan_items returns, in stream order, one record for each
\* boundary marker whose accumulated words, joined by single spaces, are not
\* empty after trimming (leading and trailing characters that are neither
\* word characters nor parentheses, then outer bracket characters); the name
\* is that trimmed text title-cased, the quantity the value of the closing
\* x<digits> word or 1.  The example stream yields (Oak Wood, 5), (Iron Ore, 1).
C1_TrimmedNames ==
    spc = "done" =>
        /\ NameAndQuantity(results) = TrimmedNameRecords(data, 1)
        /\ data = ExampleStream =>
             NameAndQuantity(results) = << <<OakWood, 5>>, <<IronOre, 1>> >>

C1_Witness ==
    spc = "done" /\ data = ExampleStream /\ Len(results) = 2

\* what the accumulation holds when it has ended
AccumulatedUpTo(orEmpty) ==
    LET e == FirstStop(data, i + 1, orEmpty)
    IN  /\ item_words = WordsAfter(data, i + 1, orEmpty)
        /\ j = IF e <= Len(data) /\ IsQuantityMarker(WordAt(data, e)) THEN e ELSE e - 1

\* C2 as stated: the accumulation after a marker ends only at another
\* boundary marker, at an x<digits> word or at the end of the stream, so
\* every word before the first of these is part of the name.
C2_ThreeStops ==
    spc = "post" =>
        item_words = SelectSeq(WordsAfter(data, i + 1, FALSE), LAMBDA w : w # <<>>)

\* C2 as amended: the accumulation after a marker ends at exactly one of four
\* events: another boundary marker, an x<digits> word, a word that is empty
\* once stripped, or the end of the stream; every word before the first of
\* these is part of the name, and only a quantity marker is consumed.
C2_FourStops ==
    spc = "post" => AccumulatedUpTo(TRUE)

C2_Witness ==
    /\ spc = "post" /\ item_words # <<>>
    /\ j < Len(data) /\ WordAt(data, j + 1) = <<>>
    /\ \E p \in (j + 2)..Len(data) : ~StopsAtMarkerOrEmpty(data, p)

MarkerIndexes == {m - 1 : m \in {p \in DOMAIN data : IsBoundary(data[p])}}

----------------------------------------------------------------------------
(* Canonical Text Grammar Parser *)

Parsed == ppc \in {"audit", "quality"}

\* C4: every record produced by scan_items, parse_user_lines or
\* parse_audit_lines has quantity >= 1.
C4_QuantityAtLeastOne ==
    \A r \in Range(results) \cup Range(parsedUser) \cup Range(parsedAudit) : r[3] >= 1

\* both grammars return exactly (titleCase(name), quality, amount) for the
\* line "<amount> x <name> (<quality>)", for the names of the given set
BothParseForm(Names) ==
    Parsed =>
        \A n \in FormAmounts, name \in Names, q \in Tiers :
            (n >= 1 /\ lines = <<FormLine(n, name, q)>>) =>
                /\ parsedUser = << <<Title(name), q, n>> >>
                /\ parsedAudit = << <<Title(name), q, n>> >>

\* a name holding no comma, plus, semicolon or parenthesis and no whitespace
\* at either end
IsPlainName(name) ==
    /\ name # <<>>
    /\ \A k \in DOMAIN name : name[k] \notin {",", "+", ";", "(", ")"}
    /\ name[1] \notin SpaceSet /\ name[Len(name)] \notin SpaceSet

\* C5 as stated: for every string "<amount> x <name> (<quality>)" with
\* amount >= 1 and a canonical tier, both grammars return exactly one
\* record, (titleCase(name), quality, amount).
C5_EveryName == BothParseForm(PlainNames \cup OddNames)

\* C5 as amended: the same, for every name that holds no comma, plus,
\* semicolon or parenthesis and neither starts nor ends with whitespace.
C5_PlainName == BothParseForm({name \in PlainNames \cup OddNames : IsPlainName(name)})

C5_Witness ==
    /\ Parsed
    /\ lines = <<FormLine(12, JoinSp(<<wIron, wOre>>), Title(wHeroic))>>
    /\ parsedUser = << <<IronOre, Title(wHeroic), 12>> >>
    /\ parsedAudit = parsedUser

\* C6: rendering a list of canonical records with format_preview and
\* parsing the rendered lines with parse_user_lines returns the same list.
C6_RoundTrip ==
    (ppc = "user" /\ records # <<>>) => parsedUser = records

\* the single segment of the input, cleaned as parse_user_lines cleans it,
\* when the input is one line without separator that the parenthesized
\* pattern does not match; <<>> otherwise
FallbackSegment ==
    IF /\ Len(lines) = 1
       /\ \A k \in DOMAIN lines[1] : lines[1][k] \notin {",", "+", ";"}
       /\ MatchParen(LStripNonWord(Strip(lines[1])), FALSE) = <<>>
    THEN LStripNonWord(Strip(lines[1])) ELSE <<>>

Front(ws) == SubSeq(ws, 1, Len(ws) - 1)

\* the record of a segment when the last remaining token is popped only if
\* it is a shortcut letter or a full tier name
PopsWholeToken(tokens) ==
    LET amt == IF IsDigits(tokens[1]) THEN ToInt(tokens[1]) ELSE 1
        rest == IF IsDigits(tokens[1]) THEN Tail(tokens) ELSE tokens
        last == Lower(rest[Len(rest)])
        isLetter == Len(last) = 1 /\ last[1] \in ShortcutKeys
        pops == isLetter \/ last \in FullNames
        quality == IF isLetter THEN ShortcutOf(last[1])
                   ELSE IF pops THEN Title(last) ELSE Title(wCommon)
        name == Title(JoinSp(IF pops THEN Front(rest) ELSE rest))
    IN  IF rest = <<>> \/ name = <<>> THEN <<>> ELSE << <<name, quality, amt>> >>

\* C7: in the token-splitting fallback the last remaining token is popped as
\* the quality only when it is a shortcut letter or a full tier name; in
\* every other case the quality is Common and the token stays in the name.
C7_PopsOnlyShortcutOrTier ==
    (ppc # "ready" /\ FallbackSegment # <<>>) =>
        parsedUser = PopsWholeToken(SplitWs(FallbackSegment))

C9_NoFirstLetterMapping ==
    ppc = "quality" =>
        LET q == Lower(Strip(qtoken))
        IN  qout = IF q = <<>> THEN Title(wCommon)
                   ELSE IF Len(q) = 1 /\ q[1] \in ShortcutKeys THEN ShortcutOf(q[1])
                   ELSE Title(q)

RECURSIVE AuditEachLine(_)
AuditEachLine(ls) ==
    IF Len(ls) = 0 THEN <<>>
    ELSE parse_audit_lines(<<ls[1]>>) \o AuditEachLine(Tail(ls))

Line10OakWoodHeroic == JoinSp(<<t10, Title(wOak), Title(wWood), Title(wHeroic)>>)

Separators == {",", "+", ";"}

\* the segments of the input: every line split on comma, plus and semicolon,
\* in order
RECURSIVE SegmentsOf(_)
SegmentsOf(ls) ==
    IF Len(ls) = 0 THEN <<>> ELSE SplitOn(ls[1], Separators) \o SegmentsOf(Tail(ls))

\* the results of parsing each segment on its own, concatenated in order
RECURSIVE UserEachSegment(_)
UserEachSegment(segs) ==
    IF Len(segs) = 0 THEN <<>>
    ELSE parse_user_lines(<<segs[1]>>) \o UserEachSegment(Tail(segs))

Line3Copper == JoinSp(<<<<"3">>, wCopper>>)
Line2OakPlusIronOreL == JoinSp(<<<<"-">>, <<"2">>, wOak, <<"+">>, wIron, wOre, <<"l">>>>)

\* C11: the output of parse_user_lines is the in-order concatenation of the
\* results of parsing each segment on its own, the segments being every line
\* split on comma, plus and semicolon: parse(L1 ++ L2) = parse(L1) ++
\* parse(L2) for every cut of the input, each segment gives at most one
\* record, a segment that gives none leaves the records of the others as
\* they are, and the output is empty only when no segment gives a record.
C11_SegmentConcatenation ==
    ppc # "ready" =>
        LET segs == SegmentsOf(lines)
        IN  /\ parsedUser = UserEachSegment(segs)
            /\ \A k \in 0..Len(lines) :
                 parsedUser = parse_user_lines(SubSeq(lines, 1, k))
                                \o parse_user_lines(SubSeq(lines, k + 1, Len(lines)))
            /\ \A k \in DOMAIN segs : Len(parse_user_lines(<<segs[k]>>)) <= 1
            /\ \A k \in DOMAIN segs :
                 parse_user_lines(<<segs[k]>>) = <<>> =>
                     parsedUser = UserEachSegment(SubSeq(segs, 1, k - 1))
                                    \o UserEachSegment(SubSeq(segs, k + 1, Len(segs)))
            /\ parsedUser = <<>> <=>
                 \A k \in DOMAIN segs : parse_user_lines(<<segs[k]>>) = <<>>

C11_Witness ==
    /\ ppc = "user"
    /\ lines = <<Line3Copper, Line2OakPlusIronOreL>>
    /\ parse_user_lines(<<Line3Copper>>) = <<>>
    /\ parsedUser = << <<Title(wOak), Title(wCommon), 2>>,
                       <<IronOre, Title(wLegendary), 1>> >>

----------------------------------------------------------------------------
(* Color Classifier *)

Classified == cpc = "done"

\* no pixel of the region is above both thresholds
NoPixelSurvives == \A k \in DOMAIN region : ~(region[k][2] > 30 /\ region[k][3] > 20)

\* C12: when no pixel of the region passes the saturation and value
\* thresholds, detect_quality_hsv returns Common, whatever the hue table
\* contains.
C12_NoSurvivorIsCommon ==
    (Classified /\ NoPixelSurvives) => detected = Title(wCommon)

C12_Witness ==
    /\ Classified /\ hue_table = AnyHueTable
    /\ region = << <<0, 0, 100>>, <<45, 30, 100>> >>
    /\ detected = Title(wCommon)

\* the indexes of the entries of the table whose range holds the median hue
\* m (in half degrees), by the range test as the claims state it
Holds(rng, m) ==
    IF rng[1] <= rng[2] THEN 2 * rng[1] <= m /\ m <= 2 * rng[2]
    ELSE m >= 2 * rng[1] \/ m <= 2 * rng[2]
HoldingEntries(m) ==
    {k \in DOMAIN hue_table : hue_table[k][2] # <<>> /\ Holds(hue_table[k][2], m)}

\* C13: the table is scanned in its listed order (Common, Uncommon, Rare,
\* Heroic, Epic, Legendary) and the tier of the first entry whose range holds
\* the median hue is returned; a hue in the overlap of Heroic 40-70 and
\* Legendary 20-50 gives Heroic, the earlier-listed tier; a hue in no range
\* gives Common; the result is always a tier name of the table.
C13_FirstListedWins ==
    (Classified /\ ~NoPixelSurvives) =>
        LET m == RegionHue(region)[1]
            E == HoldingEntries(m)
        IN  /\ detected \in {hue_table[k][1] : k \in DOMAIN hue_table}
            /\ E = {} => detected = Title(wCommon)
            /\ E # {} => \E k \in E : /\ \A e \in E : k <= e
                                       /\ detected = hue_table[k][1]
            /\ (hue_table = QUALITY_HUE_RANGES /\ 2 * 40 <= m /\ m <= 2 * 50) =>
                 detected = Title(wHeroic)
            /\ (hue_table = QUALITY_HUE_RANGES /\ 2 * 20 <= m /\ m < 2 * 40) =>
                 detected = Title(wLegendary)

C13_Witness ==
    /\ Classified /\ hue_table = QUALITY_HUE_RANGES
    /\ region = << <<45, 31, 21>>, <<0, 0, 100>>, <<50, 31, 21>> >>
    /\ detected = Title(wHeroic)

\* C14: a range (lo, hi) with lo <= hi holds exactly the hues with
\* lo <= hue <= hi, a range with lo > hi exactly the hues with hue >= lo or
\* hue <= hi: an entry that no earlier entry precedes in holding the median
\* hue is returned exactly when its range holds it.  With Epic = (260, 310)
\* and Legendary = (20, 50) a median hue of 300 gives Epic.
C14_RangeTest ==
    (Classified /\ ~NoPixelSurvives) =>
        LET m == RegionHue(region)[1]
        IN  /\ \A k \in DOMAIN hue_table :
                 ( /\ hue_table[k][2] # <<>>
                   /\ \A e \in 1..(k - 1) : e \notin HoldingEntries(m) )
                 => (detected = hue_table[k][1] <=> Holds(hue_table[k][2], m))
            /\ (hue_table = QUALITY_HUE_RANGES /\ m = 2 * 300) => detected = Title(wEpic)

C14_Witness ==
    /\ Classified /\ hue_table = WrapLastTable
    /\ region = << <<350, 31, 21>> >>
    /\ detected = Title(wLegendary)

----------------------------------------------------------------------------
(* The crop box *)

\* a box lies inside the image
InsideImage(b) ==
    /\ 0 <= b[1] /\ 0 <= b[3] /\ Right(b) <= image[1]
    /\ 0 <= b[2] /\ 0 <= b[4] /\ Bottom(b) <= image[2]

\* C19: the box handed to image.crop is the union of the boxes of the name
\* words, widened by 4 pixels to the left and right and 2 pixels up and down
\* and clamped to the image: (max(minLeft - 4, 0), max(minTop - 2, 0),
\* min(maxRight + 4, W), min(maxBottom + 2, H)); there is one box per name
\* word; for boxes inside the image, 0 <= x0 <= x1 <= W, 0 <= y0 <= y1 <= H
\* and the crop box contains the box of every name word.
C19_CropBox ==
    crop # <<>> =>
        LET W == image[1]
            H == image[2]
            minLeft == Min({boxes[k][1] : k \in DOMAIN boxes})
            minTop == Min({boxes[k][2] : k \in DOMAIN boxes})
            maxRight == Max({boxes[k][1] + boxes[k][3] : k \in DOMAIN boxes})
            maxBottom == Max({boxes[k][2] + boxes[k][4] : k \in DOMAIN boxes})
        IN  /\ Len(boxes) = Len(item_words) /\ Len(boxes) >= 1
            /\ crop[1] = (IF minLeft - 4 > 0 THEN minLeft - 4 ELSE 0)
            /\ crop[2] = (IF minTop - 2 > 0 THEN minTop - 2 ELSE 0)
            /\ crop[3] = (IF maxRight + 4 < W THEN maxRight + 4 ELSE W)
            /\ crop[4] = (IF maxBottom + 2 < H THEN maxBottom + 2 ELSE H)
            /\ (\A k \in DOMAIN boxes : InsideImage(boxes[k])) =>
                 /\ 0 <= crop[1] /\ crop[1] <= crop[3] /\ crop[3] <= W
                 /\ 0 <= crop[2] /\ crop[2] <= crop[4] /\ crop[4] <= H
                 /\ \A k \in DOMAIN boxes :
                      /\ crop[1] <= boxes[k][1] /\ boxes[k][1] + boxes[k][3] <= crop[3]
                      /\ crop[2] <= boxes[k][2] /\ boxes[k][2] + boxes[k][4] <= crop[4]

C19_Witness ==
    /\ spc = "done" /\ image = <<10, 10>>
    /\ boxes = << <<0, 0, 3, 2>>, <<5, 6, 4, 3>> >>
    /\ crop = <<0, 0, 10, 10>>

----------------------------------------------------------------------------
(* Pipeline: on_message *)

Ended == hpc \in {"returned", "raised"}

Attachments == IF hpc = "idle" THEN {} ELSE DOMAIN msg.attachments

\* the number of calls of the OCR engine for pass p of attachment a
Calls(a, p) == Cardinality({k \in DOMAIN passes : passes[k] = <<a, p>>})

\* the pass p of attachment a has returned from the engine and the Segmenter
PrimaryDone(a) ==
    /\ Calls(a, "primary") > 0 /\ msg.attachments[a].raw_ok
    /\ ~(att = a /\ hpc = "scan1")
FallbackDone(a) ==
    /\ Calls(a, "fallback") > 0 /\ msg.attachments[a].processed_ok
    /\ ~(att = a /\ hpc = "scan2") /\ raised # "ValueError"

\* the Segmenter finds no record in a word stream
NoRecords(stream) == TrimmedNameRecords(stream, 1) = <<>>

\* C15: for each image the fallback OCR pass runs if and only if the primary
\* OCR call returned and the Segmenter found no record in its output; each
\* pass runs at most once; a primary result that is not empty is what the
\* handler goes on with; and when the engine raises in either pass the
\* exception leaves the handler and the engine is not called again.
C15_RetryOnEmptyOnly ==
    \A a \in Attachments :
        LET at == msg.attachments[a]
        IN  /\ Calls(a, "primary") <= 1 /\ Calls(a, "fallback") <= 1
            /\ Calls(a, "fallback") = 1 =>
                 Calls(a, "primary") = 1 /\ at.raw_ok /\ NoRecords(at.raw)
            /\ (PrimaryDone(a) /\ NoRecords(at.raw)) => Calls(a, "fallback") = 1
            /\ (PrimaryDone(a) /\ ~NoRecords(at.raw) /\ att = a) =>
                 /\ NameAndQuantity(detected_items) = TrimmedNameRecords(at.raw, 1)
                 /\ detected_items = results
            /\ ( \/ (Calls(a, "primary") = 1 /\ ~at.raw_ok)
                 \/ (Calls(a, "fallback") = 1 /\ ~at.processed_ok) ) =>
                 /\ hpc = "raised" /\ raised = "TesseractError"
                 /\ passes[Len(passes)][1] = a

C15_Witness ==
    /\ hpc = "returned" /\ msg.attachments = <<ItemsAtOnce, NoItems>>
    /\ passes = << <<1, "primary">>, <<2, "primary">>, <<2, "fallback">> >>

\* the image attachments after a, up to and including the next one
NextImage(a) ==
    {b \in Attachments :
        /\ b > a /\ IsImageName(msg.attachments[b].filename)
        /\ \A c \in (a + 1)..(b - 1) : ~IsImageName(msg.attachments[c].filename)}

\* C16: an attachment that cannot be decoded is fatal only for itself: when
\* the handler has ended, the image attachment that follows it in the
\* message has been read and run through the pipeline.
C16_UndecodableIsLocal ==
    Ended =>
        \A a \in Attachments :
            (a \in Range(tried) /\ ~msg.attachments[a].decodable) =>
                \A b \in NextImage(a) : b \in Range(tried) /\ Calls(b, "primary") = 1

\* C17: when both the primary and the fallback pass of an image give no
\* record, the handler sends 'No items found.' and returns: no exception
\* leaves it, no review view is created for the image and no donation of it
\* is booked.
C17_NothingFound ==
    \A a \in Attachments :
        LET at == msg.attachments[a]
        IN  (PrimaryDone(a) /\ FallbackDone(a) /\ NoRecords(at.processed)) =>
                /\ raised = ""
                /\ \A v \in DOMAIN views : views[v].of # a
                /\ \A d \in DOMAIN donation_log : donation_log[d][1] # a
                /\ hpc \in {"present", "returned"}
                /\ hpc = "returned" =>
                     /\ sent # <<>>
                     /\ sent[Len(sent)] = <<a, <<"No items found.">> >>

C17_Witness ==
    /\ hpc = "returned" /\ msg.attachments = <<ItemsAtOnce, NoItems>>
    /\ Len(views) = 1 /\ Len(sent) = 2
    /\ sent[2] = <<2, <<"No items found.">> >>

\* C18: an OCR flow is started only for a message of an authorized member
\* (server owner, administrator or Banker role): for any other author no
\* attachment is read, the OCR engine is not called, no review view is
\* created and no donation is booked, and at most the donation query
\* command is processed.
C18_OcrOnlyForAuthorized ==
    (hpc # "idle" /\ ~(msg.author.owner \/ msg.author.administrator \/ msg.author.banker)) =>
        /\ tried = <<>> /\ passes = <<>> /\ views = <<>> /\ donation_log = <<>>
        /\ \A k \in DOMAIN commands :
             commands[k] \in {<<"d">>, <<"d","o","n","a","t","i","o","n","s">>}

----------------------------------------------------------------------------
(* Concurrent invocations *)

\* what each invocation returns when it runs alone on its input
AloneResults ==
    /\ spc = "done" =>
         /\ NameAndQuantity(results) = TrimmedNameRecords(data, 1)
         /\ \A k \in DOMAIN results :
              results[k][2] = FirstMatch(QUALITY_HUE_RANGES, hue)
    /\ cpc = "done" => detected = FirstMatch(QUALITY_HUE_RANGES, RegionHue(region))
    /\ ppc \in {"user", "audit", "quality"} => parsedUser = parse_user_lines(lines)
    /\ ppc \in {"audit", "quality"} => parsedAudit = parse_audit_lines(lines)
    /\ ppc = "quality" => qout = parse_quality(qtoken)

\* C20: scan_items, detect_quality_hsv and the grammars only read the
\* module-level table and their inputs: under every interleaving of their
\* steps the table stays as the module defines it, no input changes, and
\* each invocation returns what it returns when it runs alone.
C20_NoInterference ==
    /\ [](hue_table = QUALITY_HUE_RANGES /\ AloneResults)
    /\ [][data' = data /\ geom' = geom /\ image' = image /\ hue' = hue
            /\ region' = region /\ lines' = lines]_vars

C20_Witness ==
    /\ spc = "post" /\ item_words = <<Title(wOak)>> /\ hue = <<Deg(45)>>
    /\ cpc = "done" /\ detected = Title(wEpic)
    /\ ppc = "audit" /\ lines = <<Line10OakWoodHeroic>>
    /\ parsedAudit = << <<OakWood, Title(wHeroic), 10>> >>

----------------------------------------------------------------------------
(* The strict grammar's qualities, and the strict grammar against the
   lenient one *)

\* C27: every record parse_audit_lines emits has as quality one of the six
\* canonical tier names, whatever the input lines are.
C27_AuditQualityIsTier ==
    Parsed => \A r \in Range(parsedAudit) : r[2] \in Tiers

\* the line has none of the separators of the lenient grammar
NoSeparator(line) == \A k \in DOMAIN line : line[k] \notin Separators

\* C28: for a single line without comma, plus or semicolon, a record emitted
\* by parse_audit_lines is exactly what parse_user_lines emits for that line.
C28_StrictRefinesLenient ==
    (Parsed /\ Len(lines) = 1 /\ NoSeparator(lines[1]) /\ parsedAudit # <<>>) =>
        parsedUser = parsedAudit

----------------------------------------------------------------------------
(* Termination of scan_items *)

\* the stream indexes of the boundary markers
Markers == {k \in 0..(num_words - 1) : IsBoundary(data[k + 1])}

\* the stream indexes of the words in the name of record k of results
NameIndexes(k) ==
    LET m == CHOOSE c \in DOMAIN opened : opened[c] = owner[k]
    IN  {used[m][n] : n \in DOMAIN used[m]}

\* a step that ends an iteration of the outer loop: the skip of a word that
\* is no marker, or the step after the inner loop
EndsIteration == (spc = "outer" /\ spc' = "outer") \/ spc = "post"

\* C30: scan_items returns on every finite stream: the outer index grows
\* with every iteration of the outer loop and never shrinks, every word of
\* the stream is in the name of at most one record, and there are at most as
\* many records as boundary markers in the stream.
C30_ScanTerminates ==
    /\ <>(spc = "done")
    /\ [][(EndsIteration => i' > i) /\ i' >= i /\ i' <= num_words]_vars
    /\ [](/\ Len(results) <= Cardinality(Markers)
          /\ Len(owner) = Len(results) /\ Len(used) = Len(opened)
          /\ \A k \in DOMAIN results : owner[k] \in Markers
          /\ \A a, b \in DOMAIN results :
               a # b => /\ owner[a] # owner[b]
                        /\ NameIndexes(a) \cap NameIndexes(b) = {}
          /\ \A k \in DOMAIN results : NameIndexes(k) \subseteq 0..(num_words - 1))

C30_Witness ==
    /\ spc = "done" /\ i = 4
    /\ data = <<wRemoved \o <<":">>, Title(wOak), wRemoved \o <<":">>, Title(wOak)>>
    /\ Len(results) = 2 /\ used = << <<1>>, <<3>> >>

----------------------------------------------------------------------------
(* The bitmap the regions are cropped from *)

\* the next step of scan_items crops a region from its image and hands it to
\* detect_quality_hsv
HandsRegion == spc = "post" /\ item_words # <<>> /\ NormalizeName(item_words) # <<>>

\* C26: every region handed to detect_quality_hsv is cropped from the decoded
\* RGB bitmap, in the primary and in the fallback pass; the output of
\* preprocess_image is never the image scan_items crops from.
C26_RegionsFromDecoded ==
    (hpc \in {"scan1", "scan2"} /\ HandsRegion) => image = DecodedImage

----------------------------------------------------------------------------
(* One booking per review message *)

\* the calls of apply_donation made for the review message of attachment a
Bookings(a) == {k \in DOMAIN donation_log : donation_log[k][1] = a}

\* C25: for one review message, whatever Confirm clicks and Edit-modal
\* submissions the image sender makes and in whatever order, apply_donation
\* is called at most once.
C25_BookedAtMostOnce ==
    \A v \in DOMAIN views : Cardinality(Bookings(views[v].of)) <= 1

----------------------------------------------------------------------------
(* The chunks of chunk_message_blocks *)

\* the ways to cut a list of blocks into consecutive groups, none empty
RECURSIVE Groupings(_)
Groupings(bs) ==
    IF Len(bs) = 0 THEN {<<>>}
    ELSE UNION {{<<SubSeq(bs, 1, k)>> \o g : g \in Groupings(SubSeq(bs, k + 1, Len(bs)))} :
                  k \in 1..Len(bs)}

\* C21: chunk_message_blocks returns the blocks in their order, each once,
\* grouped into chunks (the blocks of a group joined by line breaks), no
\* chunk empty and none longer than max_chars, for every list of blocks.
C21_ChunksHoldBlocks ==
    lpc = "done" =>
        /\ \E g \in Groupings(blocks) : chunks = [k \in DOMAIN g |-> JoinNl(g[k])]
        /\ \A k \in DOMAIN chunks : chunks[k] # <<>> /\ Len(chunks[k]) <= max_chars

----------------------------------------------------------------------------
(* The worksheets *)

\* the sum of the amounts the Banker Inventory rows hold for a normalized
\* (item, quality), over all bankers
RECURSIVE BankerTotal(_, _)
BankerTotal(rows, key) ==
    IF Len(rows) = 0 THEN 0
    ELSE (IF norm_item_key(rows[1][1], rows[1][2]) = key THEN rows[1][4] ELSE 0)
         + BankerTotal(Tail(rows), key)

\* the same for one banker
RECURSIVE HeldBy(_, _, _)
HeldBy(rows, key, banker_name) ==
    IF Len(rows) = 0 THEN 0
    ELSE (IF norm_banker_key(rows[1][1], rows[1][2], rows[1][3])
               = <<key[1], key[2], norm_text(banker_name)>>
          THEN rows[1][4] ELSE 0)
         + HeldBy(Tail(rows), key, banker_name)

\* the amount the Guild Bank Inventory holds for a normalized (item, quality)
RECURSIVE GuildAmount(_, _)
GuildAmount(rows, key) ==
    IF Len(rows) = 0 THEN 0
    ELSE (IF norm_item_key(rows[1][1], rows[1][2]) = key THEN rows[1][3] ELSE 0)
         + GuildAmount(Tail(rows), key)

\* the sum of the amounts a list of items gives for a normalized (item, quality)
RECURSIVE ListedAmount(_, _)
ListedAmount(items, key) ==
    IF Len(items) = 0 THEN 0
    ELSE (IF norm_item_key(items[1][1], items[1][2]) = key THEN items[1][3] ELSE 0)
         + ListedAmount(Tail(items), key)

KeysOf(rows) == {norm_item_key(rows[k][1], rows[k][2]) : k \in DOMAIN rows}
\* the normalized (item, quality) of the worksheets now and before the last call
AllKeys == KeysOf(ws_b) \cup KeysOf(ws_g) \cup KeysOf(snapshot[1]) \cup KeysOf(snapshot[2])

\* C22: after a craft_or_process call that did not raise, the banker holds of
\* every material and output max(held before - materials listed, 0), plus
\* the outputs listed for it when is_processing is true; after a crafting
\* call no banker amount and no guild amount is higher than before.
C22_CraftOrProcess ==
    (lpc = "sheets" /\ invoked.op = "craft" /\ ~invoked.raised) =>
        /\ \A key \in KeysOf(invoked.items) \cup KeysOf(invoked.outputs) :
             HeldBy(ws_b, key, invoked.banker)
               = Greater(HeldBy(snapshot[1], key, invoked.banker)
                           - ListedAmount(invoked.items, key), 0)
                 + (IF invoked.is_processing
                    THEN ListedAmount(invoked.outputs, key) ELSE 0)
        /\ ~invoked.is_processing =>
             \A key \in AllKeys :
                /\ GuildAmount(ws_g, key) <= GuildAmount(snapshot[2], key)
                /\ \A banker_name \in Bankers :
                     HeldBy(ws_b, key, banker_name) <= HeldBy(snapshot[1], key, banker_name)

\* C23: for every normalized (item, quality) the Guild Bank Inventory amount
\* is the sum of the Banker Inventory amounts over all bankers, after every
\* sequence of apply_donation, craft_or_process and apply_audit_for_banker
\* calls on sheets where it held.
C23_GuildIsSumOfBankers ==
    lpc = "sheets" =>
        \A key \in AllKeys : GuildAmount(ws_g, key) = BankerTotal(ws_b, key)

\* C29: a craft_or_process call that raised ValueError for a material the
\* banker does not hold has left banker inventory, guild inventory and
\* artisan log as they were before the call.
C29_RaiseLeavesSheets ==
    (lpc = "sheets" /\ invoked.op = "craft" /\ invoked.raised) =>
        <<ws_b, ws_g, ws_a>> = snapshot

\* C24: when the banker's inventory is shown in more than one audit chunk,
\* confirming or editing one chunk leaves every amount of the items that
\* are not listed in that chunk as it was: the banker's items of the other
\* chunks, all rows of the other bankers, and the guild totals of the items
\* not listed.
C24_ChunkIsLocal ==
    (lpc = "audit" /\ invoked.op = "audit" /\ Len(audit_views) > 1) =>
        LET view == audit_views[invoked.chunk]
            listed == KeysOf(view.items) \cup KeysOf(invoked.items)
        IN  /\ \A key \in AllKeys \ listed :
                 /\ GuildAmount(ws_g, key) = GuildAmount(snapshot[2], key)
                 /\ HeldBy(ws_b, key, view.banker) = HeldBy(snapshot[1], key, view.banker)
            /\ \A key \in AllKeys, banker_name \in Bankers \ {view.banker} :
                 HeldBy(ws_b, key, banker_name) = HeldBy(snapshot[1], key, banker_name)

====
